---------------------------- MODULE Spec2Model ----------------------------
(***************************************************************************)
(* A model of Deductly's adaptive estimation-and-planning engine:          *)
(*   - personalization/bandit.py          BayesianLinearBandit             *)
(*   - personalization/adaptive_helpers.py allocate_phases, rewards, ...   *)
(*   - personalization/adaptive_planner.py weekly selection, plan, adapt   *)
(*   - personalization/routes_adaptive.py  the generate_plan request       *)
(*   - insights/logic.py, elo_system.py    the Elo online update           *)
(*                                                                         *)
(* Numbers.  The code works in floating point; the model works in exact    *)
(* integers and rationals.  Mastery values are counted in tenths, rewards  *)
(* in 1/120 (a reward of 0.5 is 60), minutes are minutes, a rational vector *)
(* is a record [num |-> integer vector, den |-> positive integer] kept in  *)
(* lowest terms.  The bandit's dimension d = 100 is reduced to Dim.        *)
(***************************************************************************)
EXTENDS Integers, Sequences, FiniteSets, TLC

VARIABLES
    bandit,         \* the BayesianLinearBandit object: mu, Sigma, Sigma_inv, num_updates
    bandit_prev,    \* the object as it was when the last update() was entered
    bandit_batch,   \* the (features, reward) rows of the last update() call
    bandit_calls,   \* number of update() calls made so far
    ap_pc,          \* allocate_phases: "start", "loop" (the while of line 379), "done"
    ap_total_weeks, \* allocate_phases: the argument total_weeks
    ap_mastery,     \* allocate_phases: the argument mastery_vector (tenths)
    ap_N,           \* allocate_phases: the locals N1, N2, N3
    sel_pc,         \* select_modules_for_week: "start" (called) or "done" (returned)
    sel_args,       \* its arguments: week_number, phase, module_library (by name), completed_modules, time_budget
    sel_ranked,     \* the candidates' ids in the order of scores.sort (the Thompson sample's ranking)
    sel_result,     \* the ids of the modules it returned, in order
    elo_rows,       \* user_elo_ratings of the learner: skill -> rating, num_updates
    eo_pc,          \* elo_online_update, per call: "idle", "loop", "done"
    eo_evidence,    \* per call: the argument new_evidence
    eo_ratings,     \* per call: the dict user_ratings it fetched and updates in memory
    eo_pos,         \* per call: the position of the loop in new_evidence
    clock,          \* the time, in half days
    diagnosed,      \* the learner has a diagnostic drill result
    abilities,      \* user_abilities.mastery_vector of the learner, or NoVector
    history,        \* mastery_vector_history of the learner, in insertion order
    study_plan,     \* the learner's row of study_plans, or NoPlan
    tasks,          \* study_plan_tasks
    bandit_model,   \* the learner's row of bandit_models, or NoRow
    completions,    \* module_completions of the learner, in insertion order
    gp_pc,          \* generate_plan, per request: "idle", "generate", "insert", "weeks", "done"
    gp_local,       \* per request: total_weeks, mastery_vector, phase allocation
    gp_result,      \* per request: the response
    gp_obs,         \* per request: weeks left empty, whether it changed the stored posterior
    aw_result,      \* the response of the last adapt_week call
    aw_obs,         \* of that call: mu before and after, weeks left empty, mastery rose
    theta,          \* user_abilities.theta_scalar of the learner (hundredths), or NoTheta
    ia_calls,       \* number of irt_online_update calls made so far
    ia_evidence,    \* the argument new_evidence of the last irt_online_update call
    ia_n,           \* get_user_response_count in that call
    ia_before,      \* the stored theta when that call was entered
    ia_raw,         \* new_theta of that call before clamp_theta
    other_tasks,    \* the rows of study_plan_tasks that belong to other learners' plans
    cf_pc,          \* construct_features: "idle" or "done" (returned)
    cf_args,        \* its arguments: module, mastery_vector, phase, week_number
    cf_features,    \* the vector it returned
    ue_pc,          \* update_elo: "idle" or "done" (returned)
    ue_args,        \* its arguments: user_ratings (as passed in), question, is_correct
    ue_result,      \* its result dict and the ratings it left in user_ratings
    gl_pc,          \* glmm_online_update: "idle" or "loop"
    gl_mastery,     \* the learner's stored mastery vector, in thousandths
    gl_gamma,       \* the row of model.gamma_user during a call
    gl_prev,        \* that row before the last micro-update
    gl_last,        \* the question of the last micro-update of the call
    gl_count,       \* responses processed so far
    dr_pc,          \* create_drill_session: "idle" or "done" (returned)
    dr_args,        \* its payload and the learner history it read
    dr_result,      \* the rows of the primary and of the fallback query
    ads_session,    \* the row of adaptive_diagnostic_sessions
    ads_elo_updates, \* elo_online_update calls that ran for the session
    pa_pc,          \* position of each process_answer call
    pa_local,       \* what each process_answer call has read
    pa_result       \* what each process_answer call returned

banditVars == <<bandit, bandit_prev, bandit_batch, bandit_calls>>

allocVars == <<ap_pc, ap_total_weeks, ap_mastery, ap_N>>

selVars == <<sel_pc, sel_args, sel_ranked, sel_result>>

eloVars == <<elo_rows, eo_pc, eo_evidence, eo_ratings, eo_pos>>

planVars == <<clock, diagnosed, abilities, history, study_plan, tasks, bandit_model,
              completions, gp_pc, gp_local, gp_result, gp_obs, aw_result, aw_obs>>

irtVars == <<theta, ia_calls, ia_evidence, ia_n, ia_before, ia_raw>>

otherVars == <<other_tasks>>

featVars == <<cf_pc, cf_args, cf_features>>

stepVars == <<ue_pc, ue_args, ue_result>>

glmmVars == <<gl_pc, gl_mastery, gl_gamma, gl_prev, gl_last, gl_count>>

drillVars == <<dr_pc, dr_args, dr_result>>

diagVars == <<ads_session, ads_elo_updates, pa_pc, pa_local, pa_result>>

drillFrame == <<banditVars, allocVars, selVars, eloVars, planVars, irtVars, otherVars, featVars, stepVars, glmmVars, diagVars>>

diagFrame == <<banditVars, allocVars, selVars, eloVars, planVars, irtVars, otherVars, featVars, stepVars, glmmVars, drillVars>>

glmmFrame == <<banditVars, allocVars, selVars, eloVars, planVars, irtVars, otherVars, featVars, stepVars, drillVars, diagVars>>

\* what the actions of one component leave alone: the other components
banditFrame == <<allocVars, selVars, eloVars, planVars, irtVars, otherVars, featVars, stepVars, glmmVars, drillVars, diagVars>>

allocFrame == <<banditVars, selVars, eloVars, planVars, irtVars, otherVars, featVars, stepVars, glmmVars, drillVars, diagVars>>

selFrame == <<banditVars, allocVars, eloVars, planVars, irtVars, otherVars, featVars, stepVars, glmmVars, drillVars, diagVars>>

eloFrame == <<banditVars, allocVars, selVars, planVars, irtVars, otherVars, featVars, stepVars, glmmVars, drillVars, diagVars>>

planFrame == <<banditVars, allocVars, selVars, eloVars, irtVars, otherVars, featVars, stepVars, glmmVars, drillVars, diagVars>>

(***************************************************************************)
(* Integer helpers.                                                        *)
(***************************************************************************)
Abs(x) == IF x < 0 THEN -x ELSE x

Min2(a, b) == IF a < b THEN a ELSE b

Max2(a, b) == IF a > b THEN a ELSE b

RECURSIVE GCD(_, _)
GCD(a, b) == IF b = 0 THEN Abs(a) ELSE GCD(b, a % Abs(b))

RECURSIVE SumTo(_, _)
\* f[1] + ... + f[n]
SumTo(f, n) == IF n = 0 THEN 0 ELSE f[n] + SumTo(f, n - 1)

(***************************************************************************)
(* Linear algebra over 1..Dim (numpy arrays of bandit.py).                 *)
(***************************************************************************)
\* Model dimension of the bandit (d = 100 in the program).
Dim == 2

Idx == 1..Dim

\* 1/sigma^2 for noise_variance = 0.1
InvSigmaSq == 10

\* rewards are counted in 1/120: a tenth of mastery is 12 units, so that the
\* weighted average of compute_module_reward over weight sums 2, 3, 4, 6 and
\* the halving of an incomplete module's reward stay whole numbers
RewardScale == 120

ZeroVec == [i \in Idx |-> 0]

Identity == [i \in Idx |-> [j \in Idx |-> IF i = j THEN 1 ELSE 0]]

\* M @ v
MatVec(M, v) == [i \in Idx |-> SumTo([j \in Idx |-> M[i][j] * v[j]], Dim)]

\* Phi.T @ Phi for the K x d matrix whose rows are the batch's feature vectors
Gram(batch) ==
    [i \in Idx |-> [j \in Idx |->
        SumTo([k \in 1..Len(batch) |-> batch[k].phi[i] * batch[k].phi[j]], Len(batch))]]

\* Phi.T @ r (r in 1/RewardScale)
PhiTr(batch) ==
    [i \in Idx |-> SumTo([k \in 1..Len(batch) |-> batch[k].phi[i] * batch[k].r], Len(batch))]

\* the n-1 x n-1 matrix left of the n x n matrix M without row a and column b
Minor(M, a, b, n) ==
    [i \in 1..(n - 1) |-> [j \in 1..(n - 1) |->
        M[IF i < a THEN i ELSE i + 1][IF j < b THEN j ELSE j + 1]]]

Sign(k) == IF k % 2 = 0 THEN 1 ELSE -1

RECURSIVE Det(_, _)
Det(M, n) ==
    IF n = 0 THEN 1
    ELSE IF n = 1 THEN M[1][1]
    ELSE SumTo([j \in 1..n |-> Sign(1 + j) * M[1][j] * Det(Minor(M, 1, j, n), n - 1)], n)

Adjugate(M) ==
    [i \in Idx |-> [j \in Idx |-> Sign(i + j) * Det(Minor(M, j, i, Dim), Dim - 1)]]

RECURSIVE GCDTo(_, _)
\* gcd of f[1], ..., f[n]
GCDTo(f, n) == IF n = 0 THEN 0 ELSE GCD(f[n], GCDTo(f, n - 1))

\* the rational vector num/den in lowest terms with a positive denominator
RatVec(num, den) ==
    LET g == GCD(GCDTo(num, Dim), den)
        s == IF den < 0 THEN -1 ELSE 1
    IN  [num |-> [i \in Idx |-> s * (num[i] \div g)], den |-> s * (den \div g)]

\* the rational matrix num/den in lowest terms with a positive denominator
RatMat(num, den) ==
    LET g == GCD(GCDTo([i \in Idx |-> GCDTo(num[i], Dim)], Dim), den)
        s == IF den < 0 THEN -1 ELSE 1
    IN  [num |-> [i \in Idx |-> [j \in Idx |-> s * (num[i][j] \div g)]],
         den |-> s * (den \div g)]

\* np.linalg.inv of an integer matrix
Inverse(M) == RatMat(Adjugate(M), Det(M, Dim))

(***************************************************************************)
(* BayesianLinearBandit.                                                   *)
(***************************************************************************)
\* __init__ with the prior N(0, I)
NewBandit ==
    [mu |-> RatVec(ZeroVec, 1),
     Sigma |-> RatMat(Identity, 1),
     Sigma_inv |-> Identity,
     num_updates |-> 0]

\* Sigma_inv after "self.Sigma_inv += (1 / self.sigma_sq) * (Phi.T @ Phi)"
PrecisionAfter(Sigma_inv, batch) ==
    [i \in Idx |-> [j \in Idx |-> Sigma_inv[i][j] + InvSigmaSq * Gram(batch)[i][j]]]

\* Sigma @ (P @ mu + (1/sigma_sq) * (Phi.T @ r)) for the precision matrix P
\* that stands at "self.Sigma_inv" when the mean is computed
MeanFrom(Sigma, P, mu, batch) ==
    LET \* P @ mu + (1/sigma_sq) Phi.T r over the denominator mu.den * RewardScale
        w == RatVec([i \in Idx |-> RewardScale * MatVec(P, mu.num)[i]
                                    + mu.den * InvSigmaSq * PhiTr(batch)[i]],
                    mu.den * RewardScale)
    IN  RatVec(MatVec(Sigma.num, w.num), Sigma.den * w.den)

\* update(): the statements of the method in their order.  Sigma_inv is
\* overwritten in place before the mean is computed from "self.Sigma_inv".
BanditUpdate(b, batch) ==
    IF Len(batch) = 0 THEN b
    ELSE LET Sigma_inv1 == PrecisionAfter(b.Sigma_inv, batch)
             Sigma1 == Inverse(Sigma_inv1)
             mu1 == MeanFrom(Sigma1, Sigma_inv1, b.mu, batch)
         IN  [mu |-> mu1, Sigma |-> Sigma1, Sigma_inv |-> Sigma_inv1,
              num_updates |-> b.num_updates + Len(batch)]

(***************************************************************************)
(* save_bandit_model / load_bandit_model: the numbers of mu and Sigma go   *)
(* through json.dumps and json.loads.  A float is sign * m * 2^e with a    *)
(* mantissa of MantissaBits bits; json.dumps writes the shortest decimal   *)
(* that reads back as the same float (float.__repr__), json.loads reads a  *)
(* decimal as the nearest float.                                           *)
(***************************************************************************)
\* width of the mantissa of the model's floats (53 for the doubles of numpy)
MantissaBits == 5

RECURSIVE Pow(_, _)
Pow(b, n) == IF n = 0 THEN 1 ELSE b * Pow(b, n - 1)

\* N / D to the nearest integer, a half to the even neighbour
RoundHalfEven(N, D) ==
    LET q == N \div D
        r == N % D
    IN  IF 2 * r < D \/ (2 * r = D /\ q % 2 = 0) THEN q ELSE q + 1

RECURSIVE Scale(_, _, _, _, _)
\* N / D > 0 as f * base^e with base^(digits-1) <= f < base^digits
Scale(N, D, e, base, digits) ==
    IF N >= Pow(base, digits) * D THEN Scale(N, base * D, e + 1, base, digits)
    ELSE IF N < Pow(base, digits - 1) * D THEN Scale(base * N, D, e - 1, base, digits)
    ELSE [N |-> N, D |-> D, e |-> e]

\* sign * m * base^e with m of the given number of digits, carried when the
\* rounding reaches base^digits
Normal(sign, m, e, base, digits) ==
    IF m = Pow(base, digits) THEN [sign |-> sign, m |-> Pow(base, digits - 1), e |-> e + 1]
    ELSE [sign |-> sign, m |-> m, e |-> e]

\* a / b (b > 0) rounded to the nearest number of that many digits
Rounded(a, b, base, digits) ==
    IF a = 0 THEN [sign |-> 1, m |-> 0, e |-> 0]
    ELSE LET s == Scale(Abs(a), b, 0, base, digits)
         IN  Normal(IF a < 0 THEN -1 ELSE 1, RoundHalfEven(s.N, s.D), s.e, base, digits)

\* the other neighbour of a / b among the numbers of that many digits
OtherNeighbour(a, b, base, digits) ==
    IF a = 0 THEN [sign |-> 1, m |-> 0, e |-> 0]
    ELSE LET s == Scale(Abs(a), b, 0, base, digits)
             down == s.N \div s.D
         IN  Normal(IF a < 0 THEN -1 ELSE 1,
                    IF RoundHalfEven(s.N, s.D) = down THEN down + 1 ELSE down,
                    s.e, base, digits)

\* the value of sign * m * base^e as a fraction
RatOf(x, base) ==
    [num |-> x.sign * x.m * Pow(base, Max2(x.e, 0)), den |-> Pow(base, Max2(-x.e, 0))]

\* the float that stands for the number a / b of the model
Float(a, b) == Rounded(a, b, 2, MantissaBits)

\* float(s) of a decimal s: the nearest float
FloatParse(dec) == Rounded(RatOf(dec, 10).num, RatOf(dec, 10).den, 2, MantissaBits)

\* the number of digits repr never needs more of (17 for doubles): the least
\* n with 10^(n-1) > 2^MantissaBits
ReprDigits == CHOOSE n \in 1..MantissaBits : /\ Pow(10, n - 1) > Pow(2, MantissaBits)
                                              /\ \A k \in 1..(n - 1) :
                                                    Pow(10, k - 1) <= Pow(2, MantissaBits)

\* a repr that always writes one significant digit
FloatRepr_OneDigit(x, n) == Rounded(RatOf(x, 2).num, RatOf(x, 2).den, 10, 1)

RECURSIVE FloatRepr(_, _)
\* repr(x), tried from n digits on: the decimal of the fewest digits that
\* reads back as x, the nearest to x among them
FloatRepr(x, n) ==
    LET v == RatOf(x, 2)
        near == Rounded(v.num, v.den, 10, n)
        other == OtherNeighbour(v.num, v.den, 10, n)
    IN  IF FloatParse(near) = x \/ n >= ReprDigits THEN near
        ELSE IF FloatParse(other) = x THEN other
        ELSE FloatRepr(x, n + 1)

\* json.loads(json.dumps(x)) for one number
JsonRoundTrip(x) == FloatParse(FloatRepr(x, 1))

\* the floats of a bandit state: mu, Sigma and sigma_sq
BanditFloats(b) ==
    {Float(b.mu.num[i], b.mu.den) : i \in Idx}
        \cup {Float(b.Sigma.num[i][j], b.Sigma.den) : i \in Idx, j \in Idx}
        \cup {Float(1, InvSigmaSq)}

(***************************************************************************)
(* Inputs of the bandit specification.                                     *)
(***************************************************************************)
\* cap on the observations folded into one bandit
MaxObs == 2

FeatureValues == {0, 1}

\* the two ends of the clip range [-0.2, 0.5], in 1/RewardScale
RewardValues == {-24, 60}

Rows == [phi : [Idx -> FeatureValues], r : RewardValues]

RECURSIVE SeqsUpTo(_, _)
\* the sequences over S of length at most n
SeqsUpTo(S, n) ==
    IF n = 0 THEN {<<>>}
    ELSE LET shorter == SeqsUpTo(S, n - 1)
         IN  shorter \cup {Append(s, x) : s \in {t \in shorter : Len(t) = n - 1}, x \in S}

Batches == SeqsUpTo(Rows, MaxObs)

InitBandit ==
    /\ bandit = NewBandit
    /\ bandit_prev = NewBandit
    /\ bandit_batch = <<>>
    /\ bandit_calls = 0

\* a caller invokes update(features_list, rewards_list)
Update ==
    \E batch \in Batches :
        /\ bandit.num_updates + Len(batch) <= MaxObs
        /\ bandit_calls <= MaxObs
        /\ bandit_prev' = bandit
        /\ bandit_batch' = batch
        /\ bandit' = BanditUpdate(bandit, batch)
        /\ bandit_calls' = bandit_calls + 1
        /\ UNCHANGED banditFrame

NextBandit == Update

vars == <<banditVars, allocVars, selVars, eloVars, planVars, irtVars, otherVars, featVars, stepVars, glmmVars, drillVars, diagVars>>

(***************************************************************************)
(* C1.  update(Phi, r) stores mu_new = Sigma_new (Sigma_inv_old mu_old +    *)
(* sigma^-2 Phi^T r): the mean is computed from the precision as it was     *)
(* before the call, for every prior state, a non-zero mean included.        *)
(***************************************************************************)
C1_MeanFromOldPrecision ==
    (bandit_calls > 0 /\ Len(bandit_batch) > 0) =>
        bandit.mu = MeanFrom(bandit.Sigma, bandit_prev.Sigma_inv, bandit_prev.mu, bandit_batch)

(***************************************************************************)
(* allocate_phases (adaptive_helpers.py).                                  *)
(***************************************************************************)
\* length of the mastery vector (35 in the program)
NumSkills == 2

Skills == 1..NumSkills

\* largest total_weeks tried
MaxWeeks == 12

\* mastery values in tenths, within (-1, 1)
MasteryValues == {-5, 0, 2, 3, 6, 9}

MasteryVectors == [Skills -> MasteryValues]

\* the vector np.full(35, 0.3) returned when nothing is stored
DefaultMastery == [s \in Skills |-> 3]

SumOf(m) == SumTo(m, NumSkills)

SumSq(m) == SumTo([s \in Skills |-> m[s] * m[s]], NumSkills)

\* np.mean(mastery_vector) < 0.25, in tenths: sum/(10 n) < 1/4
AvgBelowQuarter(m) == 4 * SumOf(m) < 10 * NumSkills

\* np.mean(mastery_vector) > 0.5
AvgAboveHalf(m) == 2 * SumOf(m) > 10 * NumSkills

\* np.var(mastery_vector) > 0.05: (n sum v^2 - (sum v)^2) / (100 n^2) > 1/20
VarianceHigh(m) ==
    20 * (NumSkills * SumSq(m) - SumOf(m) * SumOf(m)) > 100 * NumSkills * NumSkills

\* the table of lines 347-358
BaseAllocation(total_weeks) ==
    IF total_weeks = 10 THEN [N1 |-> 3, N2 |-> 4, N3 |-> 3]
    ELSE IF total_weeks = 12 THEN [N1 |-> 4, N2 |-> 5, N3 |-> 3]
    ELSE IF total_weeks = 8 THEN [N1 |-> 2, N2 |-> 4, N3 |-> 2]
    ELSE LET N1 == Max2(2, total_weeks \div 4)
             N2 == Max2(3, total_weeks \div 2)
             N3 == Max2(2, total_weeks - N1 - N2)
         IN  [N1 |-> N1, N2 |-> N2, N3 |-> N3]

\* an adjustment without the floor of 2 under Mastery
AdjustMastery_NoFloor(N, total_weeks, m) ==
    IF AvgBelowQuarter(m)
    THEN [N EXCEPT !.N1 = Min2(N.N1 + 1, total_weeks - 4), !.N3 = N.N3 - 1]
    ELSE IF AvgAboveHalf(m)
    THEN [N EXCEPT !.N1 = Max2(2, N.N1 - 1), !.N3 = Min2(N.N3 + 1, total_weeks - 4)]
    ELSE N

\* "Adjust based on initial mastery", lines 363-370
AdjustMastery(N, total_weeks, m) ==
    IF AvgBelowQuarter(m)
    THEN [N EXCEPT !.N1 = Min2(N.N1 + 1, total_weeks - 4), !.N3 = Max2(2, N.N3 - 1)]
    ELSE IF AvgAboveHalf(m)
    THEN [N EXCEPT !.N1 = Max2(2, N.N1 - 1), !.N3 = Min2(N.N3 + 1, total_weeks - 4)]
    ELSE N

\* "Adjust based on skill variance", lines 373-376
AdjustVariance(N, total_weeks, m) ==
    IF VarianceHigh(m)
    THEN [N EXCEPT !.N2 = Min2(N.N2 + 1, total_weeks - N.N1 - 2), !.N3 = Max2(2, N.N3 - 1)]
    ELSE N

PhaseSum(N) == N.N1 + N.N2 + N.N3

\* N1, N2, N3 as they stand when the while loop is entered
AllocAdjusted(total_weeks, m) ==
    AdjustVariance(AdjustMastery(BaseAllocation(total_weeks), total_weeks, m), total_weeks, m)

\* a loop that only ever adds weeks: "while N1 + N2 + N3 < total_weeks"
AllocLoopGuard_OnlyBelow(N, total_weeks) == PhaseSum(N) < total_weeks

\* the guard of "while N1 + N2 + N3 != total_weeks"
AllocLoopGuard(N, total_weeks) == PhaseSum(N) # total_weeks

\* one pass of the loop body, lines 380-383
AllocLoopBody(N, total_weeks) ==
    IF PhaseSum(N) < total_weeks
    THEN [N EXCEPT !.N2 = N.N2 + 1]
    ELSE [N EXCEPT !.N2 = Max2(3, N.N2 - 1)]

IdleAlloc ==
    /\ ap_pc = "idle"
    /\ ap_total_weeks = 0
    /\ ap_mastery = DefaultMastery
    /\ ap_N = [N1 |-> 0, N2 |-> 0, N3 |-> 0]

InitAlloc ==
    /\ ap_pc = "start"
    /\ ap_total_weeks \in 1..MaxWeeks
    /\ ap_mastery \in MasteryVectors
    /\ ap_N = [N1 |-> 0, N2 |-> 0, N3 |-> 0]

\* lines 343-376: base allocation and the two adjustments
AllocStart ==
    /\ ap_pc = "start"
    /\ ap_N' = AllocAdjusted(ap_total_weeks, ap_mastery)
    /\ ap_pc' = "loop"
    /\ UNCHANGED <<ap_total_weeks, ap_mastery, allocFrame>>

\* one iteration of the while loop
AllocLoop ==
    /\ ap_pc = "loop"
    /\ AllocLoopGuard(ap_N, ap_total_weeks)
    /\ ap_N' = AllocLoopBody(ap_N, ap_total_weeks)
    /\ UNCHANGED <<ap_pc, ap_total_weeks, ap_mastery, allocFrame>>

\* "return (N1, N2, N3)"
AllocReturn ==
    /\ ap_pc = "loop"
    /\ ~AllocLoopGuard(ap_N, ap_total_weeks)
    /\ ap_pc' = "done"
    /\ UNCHANGED <<ap_total_weeks, ap_mastery, ap_N, allocFrame>>

NextAlloc == AllocStart \/ AllocLoop \/ AllocReturn


(***************************************************************************)
(* Module library.  data/modules_library.json is data, not code: the model *)
(* reads a library as an input.  A module record carries the fields the    *)
(* planner reads; "tasks" is the number of entries of module['tasks'].     *)
(***************************************************************************)
Phases == {"foundation", "practice", "mastery"}

Mod(id, skills, secondary, level, phases, prereqs, minutes, ntasks) ==
    [module_id |-> id, target_skills |-> skills, secondary_skills |-> secondary,
     difficulty_level |-> level, phase_suitability |-> phases,
     prerequisites |-> prereqs, estimated_minutes |-> minutes, tasks |-> ntasks]

\* short modules on distinct skills; the diagnostic modules are listed for no
\* phase, so they enter a week only through get_diagnostic_module
LibraryA ==
    << Mod("LR-101", <<1>>, <<>>, "foundation", {"foundation"}, {}, 60, 1),
       Mod("LR-102", <<2>>, <<1>>, "foundation", {"foundation"}, {}, 60, 1),
       Mod("LR-103", <<3>>, <<>>, "foundation", {"foundation", "practice"}, {}, 45, 1),
       Mod("LR-104", <<4>>, <<>>, "intermediate", {"foundation"}, {}, 45, 1),
       Mod("LR-105", <<5>>, <<>>, "intermediate", {"foundation"}, {}, 45, 1),
       Mod("LR-106", <<1, 2>>, <<>>, "intermediate", {"foundation", "practice"}, {}, 30, 1),
       Mod("RC-201", <<2>>, <<>>, "advanced", {"practice", "mastery"}, {"LR-103"}, 200, 1),
       Mod("RC-202", <<2>>, <<>>, "advanced", {"practice", "mastery"}, {}, 200, 1),
       Mod("DIAGNOSTIC-WEEK-3", <<>>, <<>>, "foundation", {}, {}, 30, 1),
       Mod("DIAGNOSTIC-WEEK-6", <<>>, <<>>, "intermediate", {}, {}, 30, 1) >>

\* long modules on one skill, nothing for the mastery phase, no diagnostic module
LibraryB ==
    << Mod("LR-101", <<1>>, <<>>, "foundation", {"foundation"}, {}, 200, 1),
       Mod("LR-102", <<1>>, <<2>>, "foundation", {"foundation"}, {}, 200, 2),
       Mod("LR-201", <<2>>, <<>>, "intermediate", {"practice"}, {"LR-101"}, 90, 1) >>

\* the libraries the model reads, by name
LibraryNames == {"A", "B"}

Library(name) == IF name = "A" THEN LibraryA ELSE LibraryB

Range(f) == {f[i] : i \in DOMAIN f}

ModuleIds(lib) == {lib[i].module_id : i \in DOMAIN lib}

\* get_module_by_id: the first module of the library with this id, or None
NoModule == [module_id |-> "None"]

GetModuleById(lib, id) ==
    IF \E i \in DOMAIN lib : lib[i].module_id = id
    THEN lib[CHOOSE i \in DOMAIN lib :
                /\ lib[i].module_id = id
                /\ \A j \in DOMAIN lib : lib[j].module_id = id => i <= j]
    ELSE NoModule

\* check_prerequisites
CheckPrerequisites(module, completed) == module.prerequisites \subseteq completed

(***************************************************************************)
(* select_modules_for_week (adaptive_planner.py).                          *)
(***************************************************************************)
\* "if len(selected) >= 5: break"
MaxModulesPerWeek == 5

\* "if len(selected) < 2 and len(candidates) >= 2"
MinModulesPerWeek == 2

\* time_budget: int = 300
DefaultTimeBudget == 300

\* "if week_number % 3 == 0"
DiagnosticEvery == 3

\* the candidate filter of lines 161-166
Eligible(m, phase, completed) ==
    /\ phase \in m.phase_suitability
    /\ m.module_id \notin completed
    /\ CheckPrerequisites(m, completed)

Candidates(lib, phase, completed) ==
    SelectSeq(lib, LAMBDA m : Eligible(m, phase, completed))

\* the orders scores.sort can leave the candidates in: the score of a
\* candidate is theta_sample . features for a draw theta_sample ~ N(mu, Sigma),
\* which the model does not compute, so every order is allowed
Rankings(cands) ==
    {[i \in 1..Len(cands) |-> cands[p[i]]] :
        p \in {q \in [1..Len(cands) -> 1..Len(cands)] :
                 \A a, b \in 1..Len(cands) : a # b => q[a] # q[b]}}

\* "too much overlap": len(module_skills & covered_skills) > 0.7 * len(module_skills)
TooMuchOverlap(module, covered) ==
    10 * Cardinality(Range(module.target_skills) \cap covered)
        > 7 * Cardinality(Range(module.target_skills))

\* the time-budget test of line 189
OverBudget(total_time, module, time_budget) ==
    total_time + module.estimated_minutes > time_budget

\* one pass of the body of "for module, score in scores"
GreedyStep(acc, module, time_budget) ==
    IF OverBudget(acc.total_time, module, time_budget) THEN acc
    ELSE IF TooMuchOverlap(module, acc.covered_skills)
            /\ Len(acc.selected) >= MinModulesPerWeek THEN acc
    ELSE [selected |-> Append(acc.selected, module),
          total_time |-> acc.total_time + module.estimated_minutes,
          covered_skills |-> acc.covered_skills \cup Range(module.target_skills)]

RECURSIVE GreedyFrom(_, _, _, _)
\* the loop of lines 187-206 from position k of the ranking on
GreedyFrom(ranked, k, acc, time_budget) ==
    IF k > Len(ranked) THEN acc
    ELSE LET next == GreedyStep(acc, ranked[k], time_budget)
         IN  IF Len(next.selected) >= MaxModulesPerWeek THEN next
             ELSE GreedyFrom(ranked, k + 1, next, time_budget)

\* the selection left as the greedy loop made it
Fallback_None(selected, ranked) == selected

\* lines 208-211: "Ensure at least 2 modules per week"
Fallback(selected, ranked) ==
    IF Len(selected) < MinModulesPerWeek /\ Len(ranked) >= MinModulesPerWeek
    THEN SubSeq(ranked, 1, MinModulesPerWeek)
    ELSE selected

\* get_diagnostic_module
DiagnosticId(phase) ==
    IF phase = "foundation" THEN "DIAGNOSTIC-WEEK-3"
    ELSE IF phase = "practice" THEN "DIAGNOSTIC-WEEK-6"
    ELSE "DIAGNOSTIC-WEEK-9"

GetDiagnosticModule(lib, phase) == GetModuleById(lib, DiagnosticId(phase))

\* lines 213-217: "Add diagnostic module every 3 weeks"
AddDiagnostic(selected, lib, week_number, phase) ==
    IF week_number % DiagnosticEvery = 0 /\ GetDiagnosticModule(lib, phase) # NoModule
    THEN Append(selected, GetDiagnosticModule(lib, phase))
    ELSE selected

\* select_modules_for_week, given the ranking its sample produced
SelectModulesForWeek(week_number, phase, lib, ranked, time_budget) ==
    IF Len(ranked) = 0 THEN <<>>
    ELSE LET greedy == GreedyFrom(ranked, 1,
                          [selected |-> <<>>, total_time |-> 0, covered_skills |-> {}],
                          time_budget)
         IN  AddDiagnostic(Fallback(greedy.selected, ranked), lib, week_number, phase)

TotalMinutes(mods) == SumTo([i \in 1..Len(mods) |-> mods[i].estimated_minutes], Len(mods))

\* the module ids of a list of modules, and back
IdsOf(mods) == [i \in 1..Len(mods) |-> mods[i].module_id]

ModulesOf(lib, ids) == [i \in 1..Len(ids) |-> GetModuleById(lib, ids[i])]

(***************************************************************************)
(* Inputs of the selection specification.                                  *)
(***************************************************************************)
\* largest week_number tried
MaxSelWeek == 3

\* largest completed_modules set tried
MaxCompleted == 1

TimeBudgets == {DefaultTimeBudget}

IdleSelect ==
    /\ sel_pc = "idle"
    /\ sel_args = [week_number |-> 0, phase |-> "foundation", module_library |-> "A",
                   completed_modules |-> {}, time_budget |-> 0]
    /\ sel_ranked = <<>>
    /\ sel_result = <<>>

InitSelect ==
    /\ sel_pc = "start"
    /\ \E w \in 1..MaxSelWeek, ph \in Phases, lib \in LibraryNames, tb \in TimeBudgets :
         \E done \in {c \in SUBSET ModuleIds(Library(lib)) : Cardinality(c) <= MaxCompleted} :
            sel_args = [week_number |-> w, phase |-> ph, module_library |-> lib,
                        completed_modules |-> done, time_budget |-> tb]
    /\ sel_ranked = <<>>
    /\ sel_result = <<>>

\* the call runs: it draws its sample, which ranks the candidates, and returns
SelectForWeek ==
    /\ sel_pc = "start"
    /\ \E ranked \in Rankings(Candidates(Library(sel_args.module_library), sel_args.phase,
                                         sel_args.completed_modules)) :
         /\ sel_ranked' = IdsOf(ranked)
         /\ sel_result' = IdsOf(SelectModulesForWeek(sel_args.week_number, sel_args.phase,
                             Library(sel_args.module_library), ranked, sel_args.time_budget))
    /\ sel_pc' = "done"
    /\ UNCHANGED <<sel_args, selFrame>>

NextSelect == SelectForWeek

(***************************************************************************)
(* Elo skill ratings (insights/elo_system.py, insights/logic.py).          *)
(* Ratings and K are counted in hundredths of a rating point, weights in   *)
(* tenths, probabilities in 1/10000.  The code's 10 ** x and sqrt are read *)
(* from tables: expected_score on a grid of 20 rating points, sqrt(n + 1)  *)
(* for the update counts a run can reach.                                  *)
(***************************************************************************)
\* DEFAULT_RATING = 1500.0
DEFAULT_RATING == 150000

\* BASE_K_USER = 40.0
BASE_K_USER == 4000

\* unit of the probabilities
ProbScale == 10000

\* unit of the weights
WeightScale == 10

\* x / d rounded to the nearest integer
Round(x, d) == IF x >= 0 THEN (2 * x + d) \div (2 * d) ELSE -((2 * (-x) + d) \div (2 * d))

\* the grid of expected_score: 20 rating points
GridStep == 2000

\* 1 / (1 + 10 ** (20 k / 400)) for k = 0 .. 10
ExpectedTable == <<5000, 4712, 4427, 4145, 3869, 3599, 3339, 3088, 2847, 2619, 2403>>

\* expected_score(user_rating, question_difficulty)
ExpectedScore(user_rating, question_difficulty) ==
    LET k == Round(question_difficulty - user_rating, GridStep)
        p == ExpectedTable[Min2(Abs(k), Len(ExpectedTable) - 1) + 1]
    IN  IF k >= 0 THEN p ELSE ProbScale - p

\* an adaptive_k without the decay
AdaptiveK_Base(num_updates) == BASE_K_USER

\* BASE_K_USER / sqrt(n + 1) for n = 0 .. 10
KTable == <<4000, 2828, 2309, 2000, 1789, 1633, 1512, 1414, 1333, 1265, 1206>>

\* adaptive_k(BASE_K_USER, num_updates)
AdaptiveK(num_updates) == KTable[Min2(num_updates, Len(KTable) - 1) + 1]

EloSkills == {"LR-01", "LR-02"}

\* what fetch_question_elo_data returns for the questions of the bank:
\* the base difficulty and the normalised skill weights
QuestionBank ==
    [Q1 |-> [difficulty_elo_base |-> 150000,
             skills |-> <<[skill_id |-> "LR-01", weight |-> 10]>>],
     Q2 |-> [difficulty_elo_base |-> 152000,
             skills |-> <<[skill_id |-> "LR-01", weight |-> 6],
                          [skill_id |-> "LR-02", weight |-> 4]>>]]

\* question ids an evidence record can carry; "QX" is not in the bank
QuestionIds == {"Q1", "Q2", "QX"}

KnownQuestion(qid) == qid \in DOMAIN QuestionBank

\* a skill without a row in user_elo_ratings
NoRating == [rating |-> -1, num_updates |-> -1]

NoRatings == [s \in EloSkills |-> NoRating]

\* "Ensure user has ratings for these skills"
EnsureRatings(user_ratings, question) ==
    [s \in EloSkills |->
        IF user_ratings[s] = NoRating
           /\ \E i \in DOMAIN question.skills : question.skills[i].skill_id = s
        THEN [rating |-> DEFAULT_RATING, num_updates |-> 0]
        ELSE user_ratings[s]]

\* R_u_eff = sum(qs.weight * user_ratings[qs.skill_id].rating for qs in q_skills)
EffectiveRating(user_ratings, question) ==
    Round(SumTo([i \in DOMAIN question.skills |->
                    question.skills[i].weight * user_ratings[question.skills[i].skill_id].rating],
                Len(question.skills)), WeightScale)

\* the weight with which the question loads the skill, 0 if it does not
WeightOf(question, s) ==
    SumTo([i \in DOMAIN question.skills |->
              IF question.skills[i].skill_id = s THEN question.skills[i].weight ELSE 0],
          Len(question.skills))

\* an update_elo that moves every loaded skill by K * (score - P), whatever
\* its weight
update_elo_Unweighted(user_ratings, question, is_correct) ==
    LET P == ExpectedScore(EffectiveRating(user_ratings, question), question.difficulty_elo_base)
        delta == (IF is_correct THEN ProbScale ELSE 0) - P
    IN  [s \in EloSkills |->
            IF WeightOf(question, s) = 0 THEN user_ratings[s]
            ELSE [rating |-> user_ratings[s].rating
                             + Round(AdaptiveK(user_ratings[s].num_updates) * delta, ProbScale),
                  num_updates |-> user_ratings[s].num_updates + 1]]

\* update_elo with update_question = False: one P from the ratings before the
\* response, then every loaded skill moves by K * weight * (score - P)
update_elo(user_ratings, question, is_correct) ==
    LET P == ExpectedScore(EffectiveRating(user_ratings, question), question.difficulty_elo_base)
        delta == (IF is_correct THEN ProbScale ELSE 0) - P
    IN  [s \in EloSkills |->
            IF WeightOf(question, s) = 0 THEN user_ratings[s]
            ELSE [rating |-> user_ratings[s].rating
                             + Round(AdaptiveK(user_ratings[s].num_updates) * WeightOf(question, s) * delta,
                                     WeightScale * ProbScale),
                  num_updates |-> user_ratings[s].num_updates + 1]]

\* the body of "for item in new_evidence" on the in-memory dict
EloItemStep(user_ratings, item) ==
    IF ~KnownQuestion(item.question_id) THEN user_ratings
    ELSE update_elo(EnsureRatings(user_ratings, QuestionBank[item.question_id]),
                    QuestionBank[item.question_id], item.is_correct)

\* persist_user_elo_rating for the skills of the item's question
PersistSkills(rows, user_ratings, item) ==
    IF ~KnownQuestion(item.question_id) THEN rows
    ELSE [s \in EloSkills |->
            IF WeightOf(QuestionBank[item.question_id], s) # 0 THEN user_ratings[s] ELSE rows[s]]

RECURSIVE EloRun(_, _, _)
\* elo_online_update run alone on the stored rows, from item k of the evidence
EloRun(rows, evidence, k) ==
    IF k > Len(evidence) THEN rows
    ELSE EloRun(PersistSkills(rows, EloItemStep(rows, evidence[k]), evidence[k]), evidence, k + 1)

\* longest evidence list of one call
MaxEvidence == 2

EvidenceItems == [question_id : QuestionIds, is_correct : BOOLEAN]

EvidenceLists == SeqsUpTo(EvidenceItems, MaxEvidence)

\* the calls of elo_online_update that can overlap
EloCalls == {1, 2}

InitElo ==
    /\ elo_rows = NoRatings
    /\ eo_pc = [p \in EloCalls |-> "idle"]
    /\ eo_evidence = [p \in EloCalls |-> <<>>]
    /\ eo_ratings = [p \in EloCalls |-> NoRatings]
    /\ eo_pos = [p \in EloCalls |-> 0]

\* a call enters: "user_ratings = fetch_user_elo_ratings(user_id)"
EloFetch(p) ==
    /\ eo_pc[p] = "idle"
    /\ \E ev \in EvidenceLists : eo_evidence' = [eo_evidence EXCEPT ![p] = ev]
    /\ eo_ratings' = [eo_ratings EXCEPT ![p] = elo_rows]
    /\ eo_pos' = [eo_pos EXCEPT ![p] = 1]
    /\ eo_pc' = [eo_pc EXCEPT ![p] = "loop"]
    /\ UNCHANGED <<elo_rows, eloFrame>>

\* one pass of the loop: update the dict in memory, persist the changed skills
EloItem(p) ==
    /\ eo_pc[p] = "loop"
    /\ eo_pos[p] <= Len(eo_evidence[p])
    /\ LET item == eo_evidence[p][eo_pos[p]]
           after == EloItemStep(eo_ratings[p], item)
       IN  /\ eo_ratings' = [eo_ratings EXCEPT ![p] = after]
           /\ elo_rows' = PersistSkills(elo_rows, after, item)
    /\ eo_pos' = [eo_pos EXCEPT ![p] = eo_pos[p] + 1]
    /\ UNCHANGED <<eo_pc, eo_evidence, eloFrame>>

\* the loop is over: the call returns
EloReturn(p) ==
    /\ eo_pc[p] = "loop"
    /\ eo_pos[p] > Len(eo_evidence[p])
    /\ eo_pc' = [eo_pc EXCEPT ![p] = "done"]
    /\ UNCHANGED <<elo_rows, eo_evidence, eo_ratings, eo_pos, eloFrame>>

NextElo ==
    \/ \E p \in EloCalls : EloFetch(p)
    \/ \E p \in EloCalls : EloItem(p)
    \/ \E p \in EloCalls : EloReturn(p)

(***************************************************************************)
(* The planner: clock, tables and the pure parts of generate_plan and      *)
(* adapt_week (adaptive_planner.py, adaptive_helpers.py).  One learner.    *)
(* A timestamp is a number of half days; a start_date is the timestamp of  *)
(* a midnight.                                                             *)
(***************************************************************************)
TicksPerDay == 2

\* timedelta(weeks=1)
DaysPerWeek == 7

WeekTicks == DaysPerWeek * TicksPerDay

\* last instant of the clock
MaxClock == 1

\* date.today() as a timestamp: the midnight before t
DayStart(t) == t - (t % TicksPerDay)

\* the library load_module_library reads
PlanLibrary == Library("B")

\* the total_weeks a request asks for
PlanTotalWeeks == {7}

\* the vectors update_mastery can leave in user_abilities: 0.3 on every
\* skill, and the same with skill 1 risen to 0.6
PlanMasteryVectors ==
    {[s \in Skills |-> 3], [s \in Skills |-> IF s = 1 THEN 6 ELSE 3]}

\* no mastery_vector stored in user_abilities
NoVector == <<>>

\* get_mastery_vector(user_id): the stored vector or np.full(35, 0.3)
GetMasteryVector(stored) == IF stored = NoVector THEN DefaultMastery ELSE stored

\* the rows get_mastery_vector(user_id, timestamp) can read: the latest
\* snapshots with timestamp <= ts (ORDER BY timestamp DESC LIMIT 1 leaves the
\* choice among equal timestamps open), or the default vector
SnapshotsAt(hist, ts) ==
    LET old == {i \in DOMAIN hist : hist[i].timestamp <= ts}
        latest == {i \in old : \A j \in old : hist[j].timestamp <= hist[i].timestamp}
    IN  IF old = {} THEN {DefaultMastery} ELSE {hist[i].mastery_vector : i \in latest}

\* store_mastery_snapshot
StoreMasterySnapshot(hist, now, mastery_vector, trigger_event) ==
    Append(hist, [timestamp |-> now, mastery_vector |-> mastery_vector,
                  trigger_event |-> trigger_event])

\* the value allocate_phases never returns with
NoAllocation == [N1 |-> 0, N2 |-> 0, N3 |-> 0]

RECURSIVE AllocLoopRun(_, _)
\* the while loop of allocate_phases run to its end; NoAllocation when the
\* body leaves N unchanged with the guard still true (the loop never ends)
AllocLoopRun(N, total_weeks) ==
    IF ~AllocLoopGuard(N, total_weeks) THEN N
    ELSE IF AllocLoopBody(N, total_weeks) = N THEN NoAllocation
    ELSE AllocLoopRun(AllocLoopBody(N, total_weeks), total_weeks)

\* allocate_phases(total_weeks, mastery_vector)
AllocatePhases(total_weeks, m) == AllocLoopRun(AllocAdjusted(total_weeks, m), total_weeks)

\* "if week_num <= N1 ... elif week_num <= N1 + N2 ... else"
PhaseOfWeek(week_num, N) ==
    IF week_num <= N.N1 THEN "foundation"
    ELSE IF week_num <= N.N1 + N.N2 THEN "practice"
    ELSE "mastery"

RECURSIVE PlanWeeksFrom(_, _, _, _, _)
\* the loop "for week_num in range(first, total_weeks + 1)" of
\* generate_adaptive_study_plan and replan_future_weeks: the lists of weekly
\* selections (module ids, week first at position 1) it can produce, with
\* completed_modules updated optimistically after every week
PlanWeeksFrom(week_num, total_weeks, N, completed_modules, time_budget) ==
    IF week_num > total_weeks THEN {<<>>}
    ELSE UNION {
            {<<sel>> \o rest :
                rest \in PlanWeeksFrom(week_num + 1, total_weeks, N,
                                       completed_modules \cup Range(sel), time_budget)} :
            sel \in {IdsOf(SelectModulesForWeek(week_num, PhaseOfWeek(week_num, N),
                                                PlanLibrary, ranked, time_budget)) :
                        ranked \in Rankings(Candidates(PlanLibrary, PhaseOfWeek(week_num, N),
                                                       completed_modules))}}

\* insert_module_tasks for every module of every week of an assignment
NewTasks(first_week, assignment, now) ==
    UNION {UNION {{[week_number |-> first_week + k - 1,
                    module_id |-> assignment[k][i],
                    task_idx |-> j,
                    status |-> "pending",
                    created_at |-> now] :
                        j \in 1..GetModuleById(PlanLibrary, assignment[k][i]).tasks} :
                  i \in DOMAIN assignment[k]} :
           k \in DOMAIN assignment}

\* the weeks of an assignment for which no module was selected
EmptyWeeks(first_week, assignment) ==
    {first_week + k - 1 : k \in {x \in DOMAIN assignment : Len(assignment[x]) = 0}}

\* total_tasks of generate_adaptive_study_plan
TotalTasks(assignment) == Cardinality(NewTasks(1, assignment, 0))

\* no row in bandit_models
NoRow == [num_updates |-> -1]

\* to_dict, as save_bandit_model stores it (dimension and noise variance are
\* the same for every bandit of the model)
ToDict(b) == [mu |-> b.mu, Sigma |-> b.Sigma, num_updates |-> b.num_updates]

\* np.linalg.inv of the rational matrix S
InverseRat(S) == RatMat([i \in Idx |-> [j \in Idx |-> S.den * Adjugate(S.num)[i][j]]],
                        Det(S.num, Dim))

\* from_dict: __init__ recomputes Sigma_inv from the stored covariance
FromDict(d) ==
    [mu |-> d.mu, Sigma |-> d.Sigma, Sigma_inv |-> InverseRat(d.Sigma).num,
     num_updates |-> d.num_updates]

\* load_bandit_model
LoadBanditModel(row) == IF row = NoRow THEN NewBandit ELSE FromDict(row)

\* components 40 (difficulty is foundation), 43 (phase match) and
\* 41 (difficulty is intermediate) of construct_features, the components the
\* model's bandit of dimension Dim keeps; 0 beyond them, as the padding
ConstructFeatures(module, phase) ==
    [i \in Idx |->
        IF i = 1 THEN (IF module.difficulty_level \notin {"intermediate", "advanced"} THEN 1 ELSE 0)
        ELSE IF i = 2 THEN (IF phase \in module.phase_suitability THEN 1 ELSE 0)
        ELSE IF i = 3 THEN (IF module.difficulty_level = "intermediate" THEN 1 ELSE 0)
        ELSE 0]

\* sum of after - before over a list of skills (tenths)
Improvement(skills, before, after) ==
    SumTo([i \in DOMAIN skills |-> after[skills[i]] - before[skills[i]]], Len(skills))

\* the counts of get_module_completion_rate: the tasks of the module created
\* within [week_start, week_end], of any plan and any week
CompletionCounts(all_tasks, module_id, week_start, week_end) ==
    LET S == {t \in all_tasks : /\ t.module_id = module_id
                                /\ t.created_at >= week_start
                                /\ t.created_at <= week_end}
    IN  [total |-> Cardinality(S),
         completed |-> Cardinality({t \in S : t.status = "completed"})]

\* the counts of one query over the rows of two owners
AddCounts(a, b) == [total |-> a.total + b.total, completed |-> a.completed + b.completed]

\* completion_rate < 0.5
RateBelowHalf(c) == c.total = 0 \/ 2 * c.completed < c.total

\* completion_rate >= 0.8
RateAtLeast80(c) == c.total > 0 /\ 5 * c.completed >= 4 * c.total

\* compute_module_reward, in 1/RewardScale: weight 1 for target skills, 0.5
\* for secondary skills, clipped to [-0.2, 0.5], halved below half completion
ComputeModuleReward(module, mastery_before, mastery_after, counts) ==
    LET total_improvement == 2 * Improvement(module.target_skills, mastery_before, mastery_after)
                             + Improvement(module.secondary_skills, mastery_before, mastery_after)
        weight_sum == 2 * Len(module.target_skills) + Len(module.secondary_skills)
        avg_improvement == IF weight_sum > 0
                           THEN ((RewardScale \div 10) * total_improvement) \div weight_sum
                           ELSE 0
        reward == Max2(-(RewardScale \div 5), Min2(RewardScale \div 2, avg_improvement))
    IN  IF RateBelowHalf(counts) THEN reward \div 2 ELSE reward

\* an is_week_complete that only looks for tasks in the week
IsWeekComplete_AnyTask(all_tasks, week_number) ==
    \E t \in all_tasks : t.week_number = week_number

\* is_week_complete
IsWeekComplete(all_tasks, week_number) ==
    /\ \E t \in all_tasks : t.week_number = week_number
    /\ \A t \in all_tasks : t.week_number = week_number => t.status = "completed"

\* get_modules_for_week: the modules of the week's tasks, in library order
GetModulesForWeek(all_tasks, week_number) ==
    SelectSeq(PlanLibrary,
              LAMBDA m : \E t \in all_tasks : t.week_number = week_number /\ t.module_id = m.module_id)

\* get_week_start_time
GetWeekStartTime(plan, week_number) == plan.start_date + (week_number - 1) * WeekTicks

\* get_completed_modules: logged with completion_rate >= 0.8
GetCompletedModules(log) ==
    {log[i].module_id : i \in {x \in DOMAIN log : log[x].completion_ok}}

\* no row in study_plans
NoPlan == [id |-> "None"]

\* a, b rational vectors: a[i] < b[i]
RatLess(a, b, i) == a.num[i] * b.den < b.num[i] * a.den

\* the generate_plan requests that can be in flight
Requests == {1, 2}

NoLocals == [total_weeks |-> 0, mastery_vector |-> NoVector, N |-> NoAllocation]

NoResult == [status |-> 0]

NoAdapt == [status |-> "none"]

InitPlan ==
    /\ clock = 0
    /\ diagnosed = FALSE
    /\ abilities = NoVector
    /\ history = <<>>
    /\ study_plan = NoPlan
    /\ tasks = {}
    /\ bandit_model = NoRow
    /\ completions = <<>>
    /\ gp_pc = [r \in Requests |-> "idle"]
    /\ gp_local = [r \in Requests |-> NoLocals]
    /\ gp_result = [r \in Requests |-> NoResult]
    /\ gp_obs = [r \in Requests |-> [empty_weeks |-> {}, posterior_changed |-> FALSE]]
    /\ aw_result = NoAdapt
    /\ aw_obs = NoAdapt

\* time passes
Tick ==
    /\ clock < MaxClock
    /\ clock' = clock + 1
    /\ UNCHANGED <<diagnosed, abilities, history, study_plan, tasks, bandit_model,
                   completions, gp_pc, gp_local, gp_result, gp_obs, aw_result, aw_obs, planFrame>>

\* the learner submits a diagnostic drill: has_completed_diagnostic becomes true
CompleteDiagnostic ==
    /\ ~diagnosed
    /\ diagnosed' = TRUE
    /\ UNCHANGED <<clock, abilities, history, study_plan, tasks, bandit_model,
                   completions, gp_pc, gp_local, gp_result, gp_obs, aw_result, aw_obs, planFrame>>

\* update_mastery (glmm_online_update): persist_mastery_vector writes the new
\* vector to user_abilities, and to no other table
UpdateMastery ==
    /\ \E v \in PlanMasteryVectors : v # abilities /\ abilities' = v
    /\ UNCHANGED <<clock, diagnosed, history, study_plan, tasks, bandit_model,
                   completions, gp_pc, gp_local, gp_result, gp_obs, aw_result, aw_obs, planFrame>>

\* link_drill_to_task: "SET status = 'in_progress' WHERE id = ?"
LinkDrillToTask ==
    /\ \E t \in tasks :
          /\ t.status # "in_progress"
          /\ tasks' = (tasks \ {t}) \cup {[t EXCEPT !.status = "in_progress"]}
    /\ UNCHANGED <<clock, diagnosed, abilities, history, study_plan, bandit_model,
                   completions, gp_pc, gp_local, gp_result, gp_obs, aw_result, aw_obs, planFrame>>

\* mark_task_completed: "SET status = 'completed' WHERE id = ?"
MarkTaskCompleted ==
    /\ \E t \in tasks :
          /\ t.status # "completed"
          /\ tasks' = (tasks \ {t}) \cup {[t EXCEPT !.status = "completed"]}
    /\ UNCHANGED <<clock, diagnosed, abilities, history, study_plan, bandit_model,
                   completions, gp_pc, gp_local, gp_result, gp_obs, aw_result, aw_obs, planFrame>>

\* generate_plan (routes_adaptive.py), lines 174-184: the two checks
GpCheck(r) ==
    /\ gp_pc[r] = "idle"
    /\ IF ~diagnosed
       THEN /\ gp_result' = [gp_result EXCEPT ![r] =
                   [status |-> 400, error |-> "Please complete a diagnostic test first"]]
            /\ gp_pc' = [gp_pc EXCEPT ![r] = "done"]
            /\ UNCHANGED gp_local
       ELSE IF study_plan # NoPlan
       THEN /\ gp_result' = [gp_result EXCEPT ![r] =
                   [status |-> 400, error |-> "You already have a study plan"]]
            /\ gp_pc' = [gp_pc EXCEPT ![r] = "done"]
            /\ UNCHANGED gp_local
       ELSE /\ \E tw \in PlanTotalWeeks :
                   gp_local' = [gp_local EXCEPT ![r] = [@ EXCEPT !.total_weeks = tw]]
            /\ gp_pc' = [gp_pc EXCEPT ![r] = "generate"]
            /\ UNCHANGED gp_result
    /\ UNCHANGED <<clock, diagnosed, abilities, history, study_plan, tasks, bandit_model,
                   completions, gp_obs, aw_result, aw_obs, planFrame>>

\* generate_adaptive_study_plan, lines 339-354: mastery, allocate_phases (which
\* must return), "save_bandit_model(user_id, bandit_model)" with the prior
GpInit(r) ==
    /\ gp_pc[r] = "generate"
    /\ LET m == GetMasteryVector(abilities)
           N == AllocatePhases(gp_local[r].total_weeks, m)
       IN  /\ N # NoAllocation
           /\ gp_local' = [gp_local EXCEPT ![r] = [@ EXCEPT !.mastery_vector = m, !.N = N]]
    /\ bandit_model' = ToDict(NewBandit)
    /\ gp_obs' = [gp_obs EXCEPT ![r] = [@ EXCEPT !.posterior_changed =
                      LoadBanditModel(bandit_model) # NewBandit]]
    /\ gp_pc' = [gp_pc EXCEPT ![r] = "insert"]
    /\ UNCHANGED <<clock, diagnosed, abilities, history, study_plan, tasks,
                   completions, gp_result, aw_result, aw_obs, planFrame>>

\* lines 357-372: "INSERT INTO study_plans"; user_id is UNIQUE in the table, so
\* the insert raises when a row is there, and the route answers 500
GpInsertPlan(r) ==
    /\ gp_pc[r] = "insert"
    /\ IF study_plan # NoPlan
       THEN /\ gp_result' = [gp_result EXCEPT ![r] =
                   [status |-> 500, error |-> "Failed to generate study plan"]]
            /\ gp_pc' = [gp_pc EXCEPT ![r] = "done"]
            /\ UNCHANGED study_plan
       ELSE /\ study_plan' = [id |-> "sp",
                              total_weeks |-> gp_local[r].total_weeks,
                              start_date |-> DayStart(clock),
                              phase_allocation |-> gp_local[r].N,
                              current_phase |-> "foundation"]
            /\ gp_pc' = [gp_pc EXCEPT ![r] = "weeks"]
            /\ UNCHANGED gp_result
    /\ UNCHANGED <<clock, diagnosed, abilities, history, tasks, bandit_model,
                   completions, gp_local, gp_obs, aw_result, aw_obs, planFrame>>

\* lines 375-424: plan every week, store the initial snapshot, return
GpPlanWeeks(r) ==
    /\ gp_pc[r] = "weeks"
    /\ \E assignment \in PlanWeeksFrom(1, gp_local[r].total_weeks, gp_local[r].N, {},
                                       DefaultTimeBudget) :
          /\ tasks' = tasks \cup NewTasks(1, assignment, clock)
          /\ gp_result' = [gp_result EXCEPT ![r] =
                [status |-> 201,
                 message |-> "Adaptive study plan generated successfully",
                 total_weeks |-> gp_local[r].total_weeks,
                 total_tasks |-> TotalTasks(assignment),
                 phase_allocation |-> gp_local[r].N]]
          /\ gp_obs' = [gp_obs EXCEPT ![r] = [@ EXCEPT !.empty_weeks = EmptyWeeks(1, assignment)]]
    /\ history' = StoreMasterySnapshot(history, clock, gp_local[r].mastery_vector,
                                       "study_plan_init")
    /\ gp_pc' = [gp_pc EXCEPT ![r] = "done"]
    /\ UNCHANGED <<clock, diagnosed, abilities, study_plan, bandit_model,
                   completions, gp_local, aw_result, aw_obs, planFrame>>

\* the mastery vector stored when the plan was generated
MasteryAtPlanInit ==
    history[CHOOSE i \in DOMAIN history : history[i].trigger_event = "study_plan_init"].mastery_vector

\* every target skill of every module of the week stands higher in
\* user_abilities than when the plan was generated
MasteryRose(modules) ==
    /\ \E i \in DOMAIN history : history[i].trigger_event = "study_plan_init"
    /\ \A k \in DOMAIN modules : \A i \in DOMAIN modules[k].target_skills :
          GetMasteryVector(abilities)[modules[k].target_skills[i]]
             > MasteryAtPlanInit[modules[k].target_skills[i]]

\* adapt_study_plan (routes_adaptive.py) without a plan: 404
AdaptNoPlan ==
    /\ study_plan = NoPlan
    /\ aw_result' = [status |-> "404", message |-> "No study plan found for user"]
    /\ aw_obs' = NoAdapt
    /\ UNCHANGED <<clock, diagnosed, abilities, history, study_plan, tasks, bandit_model,
                   completions, gp_pc, gp_local, gp_result, gp_obs, planFrame>>

\* trigger_weekly_adaptation, lines 444-448: the week is not complete
AdaptNotComplete(w) ==
    /\ study_plan # NoPlan
    /\ ~IsWeekComplete(tasks, w)
    /\ aw_result' = [status |-> "error", week |-> w, message |-> "Week is not yet complete"]
    /\ aw_obs' = NoAdapt
    /\ UNCHANGED <<clock, diagnosed, abilities, history, study_plan, tasks, bandit_model,
                   completions, gp_pc, gp_local, gp_result, gp_obs, planFrame>>

\* trigger_weekly_adaptation, lines 451-548, for a complete week: rewards and
\* features from the history snapshots, the bandit update, the snapshot,
\* replan_future_weeks, the phase transition, the result
AdaptWeek(w) ==
    /\ study_plan # NoPlan
    /\ IsWeekComplete(tasks, w)
    /\ LET modules == GetModulesForWeek(tasks, w)
           week_start == GetWeekStartTime(study_plan, w)
           week_end == clock
           phase == study_plan.current_phase
           old_bandit == LoadBanditModel(bandit_model)
           N == study_plan.phase_allocation
       IN  /\ old_bandit.num_updates + Len(modules) <= MaxObs
           /\ \E mastery_before \in SnapshotsAt(history, week_start),
                 mastery_after \in SnapshotsAt(history, week_end) :
                LET own_counts == [k \in DOMAIN modules |->
                                  CompletionCounts(tasks, modules[k].module_id, week_start, week_end)]
                    counts == [k \in DOMAIN modules |->
                                  AddCounts(own_counts[k],
                                            CompletionCounts(other_tasks, modules[k].module_id,
                                                             week_start, week_end))]
                    rewards == [k \in DOMAIN modules |->
                                  ComputeModuleReward(modules[k], mastery_before, mastery_after,
                                                      counts[k])]
                    batch == [k \in DOMAIN modules |->
                                  [phi |-> ConstructFeatures(modules[k], phase), r |-> rewards[k]]]
                    new_bandit == BanditUpdate(old_bandit, batch)
                    log == completions \o
                              [k \in DOMAIN modules |->
                                  [module_id |-> modules[k].module_id, week_number |-> w,
                                   completion_ok |-> RateAtLeast80(counts[k]),
                                   reward |-> rewards[k]]]
                    next_phase == IF w = N.N1 THEN "practice"
                                  ELSE IF w = N.N1 + N.N2 THEN "mastery"
                                  ELSE study_plan.current_phase
                IN  /\ bandit_model' = ToDict(new_bandit)
                    /\ completions' = log
                    /\ history' = StoreMasterySnapshot(history, clock, GetMasteryVector(abilities),
                                                       "week_end")
                    /\ \E assignment \in PlanWeeksFrom(w + 1, study_plan.total_weeks, N,
                                                       GetCompletedModules(log), DefaultTimeBudget) :
                          /\ tasks' = {t \in tasks : t.week_number <= w
                                                     \/ t.week_number > study_plan.total_weeks}
                                      \cup NewTasks(w + 1, assignment, clock)
                          /\ aw_obs' = [status |-> "success",
                                        mu_before |-> old_bandit.mu,
                                        mu_after |-> new_bandit.mu,
                                        mastery_rose |-> MasteryRose(modules),
                                        counts |-> counts,
                                        own_counts |-> own_counts,
                                        empty_weeks |-> EmptyWeeks(w + 1, assignment)]
                    /\ study_plan' = [study_plan EXCEPT !.current_phase = next_phase]
                    /\ aw_result' = [status |-> "success", week_completed |-> w,
                                     rewards |-> rewards, num_modules |-> Len(modules),
                                     next_phase |-> next_phase]
    /\ UNCHANGED <<clock, diagnosed, abilities, gp_pc, gp_local, gp_result, gp_obs, planFrame>>

\* largest completed_week a caller passes
MaxAdaptWeek == 2

AdaptWeeks == 1..MaxAdaptWeek

NextPlan ==
    \/ Tick
    \/ CompleteDiagnostic
    \/ UpdateMastery
    \/ LinkDrillToTask
    \/ MarkTaskCompleted
    \/ \E r \in Requests : GpCheck(r)
    \/ \E r \in Requests : GpInit(r)
    \/ \E r \in Requests : GpInsertPlan(r)
    \/ \E r \in Requests : GpPlanWeeks(r)
    \/ AdaptNoPlan
    \/ \E w \in AdaptWeeks : AdaptNotComplete(w)
    \/ \E w \in AdaptWeeks : AdaptWeek(w)

(***************************************************************************)
(* The ability estimate theta (insights/logic.py, irt_implementation.py).  *)
(* theta and item difficulties are counted in hundredths, probabilities in *)
(* 1/10000, inverse prior variances in thirtieths.  torch.sigmoid is read  *)
(* from a table on a grid of 0.25 with linear interpolation.               *)
(***************************************************************************)
ThetaScale == 100

THETA_MIN == -350

THETA_MAX == 350

VARIANCE_SCALE == 30

N_CAP == 150

\* 1 / VAR_FLOOR = 1 / 0.15, in thirtieths
InvVarFloor == 200

\* sigmoid(0), sigmoid(0.25), ..., sigmoid(8)
SigmoidTable ==
    <<5000, 5622, 6225, 6792, 7311, 7773, 8176, 8520, 8808, 9047, 9241,
      9399, 9526, 9627, 9707, 9770, 9820, 9859, 9890, 9914, 9933, 9948,
      9959, 9968, 9975, 9981, 9985, 9988, 9991, 9993, 9994, 9996, 9997>>

SigmoidStep == 25

Sigmoid(x) ==
    LET a == Abs(x)
        i == a \div SigmoidStep
        v == IF i + 1 >= Len(SigmoidTable)
             THEN SigmoidTable[Len(SigmoidTable)]
             ELSE SigmoidTable[i + 1]
                  + Round((SigmoidTable[i + 2] - SigmoidTable[i + 1]) * (a % SigmoidStep),
                          SigmoidStep)
    IN  IF x >= 0 THEN v ELSE ProbScale - v

\* a clamp_theta that leaves the value as it is
ClampTheta_None(theta_value) == theta_value

\* clamp_theta
ClampTheta(theta_value) == Max2(THETA_MIN, Min2(THETA_MAX, theta_value))

\* compute_adaptive_prior_var, as 1 / prior_var in thirtieths:
\* prior_var = max(VAR_FLOOR, VAR_INIT / (1 + min(n, N_CAP) / VARIANCE_SCALE))
InvPriorVar(n_responses) ==
    Min2(InvVarFloor, VARIANCE_SCALE + Min2(n_responses, N_CAP))

\* the rows of item_difficulties: question -> b
ItemBank == [Q1 |-> -100, Q2 |-> 400]

\* get_item_difficulties for one question: "difficulties.append(0.0)" when
\* the question has no row
GetItemDifficulty(q) == IF q \in DOMAIN ItemBank THEN ItemBank[q] ELSE 0

\* sum over the batch of (r - p), in 1/10000
RECURSIVE SumResidual(_, _, _)
SumResidual(evidence, theta_value, k) ==
    IF k = 0 THEN 0
    ELSE LET item == evidence[k]
             p == Sigmoid(theta_value - GetItemDifficulty(item.question_id))
         IN  (IF item.is_correct THEN ProbScale ELSE 0) - p
             + SumResidual(evidence, theta_value, k - 1)

\* sum over the batch of p (1 - p), in 1/10000
RECURSIVE SumInformation(_, _, _)
SumInformation(evidence, theta_value, k) ==
    IF k = 0 THEN 0
    ELSE LET p == Sigmoid(theta_value - GetItemDifficulty(evidence[k].question_id))
         IN  Round(p * (ProbScale - p), ProbScale)
             + SumInformation(evidence, theta_value, k - 1)

\* one pass of the loop of rasch_online_update_theta_torch; g and H are
\* counted in 1 / (10000 * 30)
NewtonStep(evidence, theta_value, prior_mean, inv_var) ==
    LET g == VARIANCE_SCALE * SumResidual(evidence, theta_value, Len(evidence))
             - (theta_value - prior_mean) * inv_var * (ProbScale \div ThetaScale)
        H == - VARIANCE_SCALE * SumInformation(evidence, theta_value, Len(evidence))
             - inv_var * ProbScale
    IN  theta_value + Round(ThetaScale * g, -H)

NewtonIters == 6

RECURSIVE RaschOnlineUpdate(_, _, _, _, _)
RaschOnlineUpdate(evidence, theta_value, prior_mean, inv_var, iters) ==
    IF iters = 0 THEN theta_value
    ELSE RaschOnlineUpdate(evidence,
                           NewtonStep(evidence, theta_value, prior_mean, inv_var),
                           prior_mean, inv_var, iters - 1)

\* no row of user_abilities, or the row's theta_scalar
NoTheta == -1000

\* fetch_current_ability(...)['ability_theta']: the stored value, 0.0 when
\* there is no row
FetchCurrentAbility(stored) == IF stored = NoTheta THEN 0 ELSE stored

\* an update whose prior is centred at 0 and not at the stored estimate
IrtNewTheta_ZeroPrior(stored, evidence, n_responses) ==
    RaschOnlineUpdate(evidence, FetchCurrentAbility(stored), 0, InvPriorVar(n_responses),
                      NewtonIters)

\* irt_online_update before the clamp
IrtNewTheta(stored, evidence, n_responses) ==
    LET theta0 == FetchCurrentAbility(stored)
    IN  RaschOnlineUpdate(evidence, theta0, theta0, InvPriorVar(n_responses), NewtonIters)

\* the records of a batch whose question has a difficulty
RECURSIVE KnownItems(_)
KnownItems(evidence) ==
    IF evidence = <<>> THEN <<>>
    ELSE IF Head(evidence).question_id \in DOMAIN ItemBank
         THEN <<Head(evidence)>> \o KnownItems(Tail(evidence))
         ELSE KnownItems(Tail(evidence))

MaxAbilityCalls == 3

\* values of get_user_response_count
ResponseCounts == {0, 150}

InitIrt ==
    /\ theta = NoTheta
    /\ ia_calls = 0
    /\ ia_evidence = <<>>
    /\ ia_n = 0
    /\ ia_before = NoTheta
    /\ ia_raw = 0

\* irt_online_update(user_id, new_evidence); fetch_current_ability inserts the
\* learner's row, with an all-zero mastery vector, when there is none
UpdateAbility ==
    /\ ia_calls < MaxAbilityCalls
    /\ \E ev \in EvidenceLists, n \in ResponseCounts :
          LET new_theta == IrtNewTheta(theta, ev, n)
          IN  /\ ia_evidence' = ev
              /\ ia_n' = n
              /\ ia_raw' = new_theta
              /\ theta' = ClampTheta(new_theta)
    /\ ia_before' = theta
    /\ ia_calls' = ia_calls + 1
    /\ abilities' = IF theta = NoTheta /\ abilities = NoVector
                    THEN [s \in Skills |-> 0] ELSE abilities
    /\ UNCHANGED <<clock, diagnosed, history, study_plan, tasks, bandit_model,
                   completions, gp_pc, gp_local, gp_result, gp_obs, aw_result, aw_obs>>
    /\ UNCHANGED <<banditVars, allocVars, selVars, eloVars, otherVars, featVars, stepVars, glmmVars, drillVars, diagVars>>

NextIrt == UpdateAbility

(***************************************************************************)
(* Other learners.  Their plans' tasks are rows of the same table          *)
(* study_plan_tasks; insert_module_tasks creates them 'pending' with       *)
(* created_at = CURRENT_TIMESTAMP.                                         *)
(***************************************************************************)
MaxOtherTasks == 1

\* the modules other learners' plans hold in the runs
OtherModules == {PlanLibrary[1].module_id}

InitOther == other_tasks = {}

\* insert_module_tasks for another learner's plan
OtherLearnerTask ==
    /\ Cardinality(other_tasks) < MaxOtherTasks
    /\ \E m \in OtherModules :
          other_tasks' = other_tasks \cup
              {[week_number |-> 1, module_id |-> m, task_idx |-> 1, status |-> "pending",
                created_at |-> clock]}
    /\ UNCHANGED <<banditVars, allocVars, selVars, eloVars, planVars, irtVars, featVars, stepVars, glmmVars, drillVars, diagVars>>

\* the learner's plan is generated, worked through and adapted while other
\* learners' plans are written
NextShared ==
    \/ Tick
    \/ CompleteDiagnostic
    \/ MarkTaskCompleted
    \/ \E r \in Requests : GpCheck(r)
    \/ \E r \in Requests : GpInit(r)
    \/ \E r \in Requests : GpInsertPlan(r)
    \/ \E r \in Requests : GpPlanWeeks(r)
    \/ \E w \in AdaptWeeks : AdaptWeek(w)
    \/ OtherLearnerTask

(***************************************************************************)
(* construct_features (adaptive_helpers.py) in full length.  Entries are   *)
(* integers: mastery and gaps in tenths, the indicators 0 or 1, week / 10  *)
(* in tenths, the interaction products in hundredths.  Positions are       *)
(* counted from 1: features[0:35] of the code is positions 1..35.          *)
(***************************************************************************)
\* the length of np.full(35, 0.3), the planner's default vector
PlannerSkills == 35

\* len(skill_taxonomy): the length of the vectors the insights layer stores
TaxonomySize == 34

FeatureDim == 100

\* the vectors get_mastery_vector can return: the default, the zero vector
\* fetch_current_ability stores with a new row, a vector update_mastery wrote
StoredVectors ==
    { [i \in 1..PlannerSkills |-> 3],
      [i \in 1..TaxonomySize |-> 0],
      [i \in 1..TaxonomySize |-> IF i = 1 THEN 6 ELSE 2] }

Zeros(n) == [i \in 1..n |-> 0]

\* "diff_onehot[diff_idx] = 1.0"
DifficultyOneHot(module) ==
    LET diff_idx == IF module.difficulty_level = "intermediate" THEN 1
                    ELSE IF module.difficulty_level = "advanced" THEN 2 ELSE 0
    IN  [i \in 1..3 |-> IF i = diff_idx + 1 THEN 1 ELSE 0]

PhaseMatch(module, phase) == IF phase \in module.phase_suitability THEN 1 ELSE 0

\* the pairwise products of the first three target skills, in the loop's order
InteractionTerms(module, mastery_vector) ==
    LET t == module.target_skills
        n == Min2(3, Len(t))
        pairs == IF n = 2 THEN <<<<1, 2>>>>
                 ELSE IF n = 3 THEN <<<<1, 2>>, <<1, 3>>, <<2, 3>>>>
                 ELSE <<>>
    IN  [k \in DOMAIN pairs |-> mastery_vector[t[pairs[k][1]]] * mastery_vector[t[pairs[k][2]]]]

construct_features(module, mastery_vector, phase, week_number) ==
    LET t == module.target_skills
        gaps == [i \in 1..5 |-> IF i <= Len(t) THEN 10 - mastery_vector[t[i]] ELSE 0]
        inter == InteractionTerms(module, mastery_vector)
        features == mastery_vector \o gaps \o DifficultyOneHot(module)
                    \o <<PhaseMatch(module, phase)>> \o <<week_number>>
                    \o inter \o Zeros(5 - Len(inter))
        padded == features \o Zeros(Max2(0, FeatureDim - Len(features)))
    IN  SubSeq(padded, 1, FeatureDim)

NoFeatureCall == [week_number |-> 0]

InitFeatures ==
    /\ cf_pc = "idle"
    /\ cf_args = NoFeatureCall
    /\ cf_features = <<>>

\* one call, from select_modules_for_week or trigger_weekly_adaptation
ConstructCall ==
    /\ cf_pc = "idle"
    /\ \E i \in DOMAIN LibraryA, m \in StoredVectors, phase \in Phases, w \in 1..MaxSelWeek :
          /\ cf_args' = [module |-> LibraryA[i], mastery_vector |-> m, phase |-> phase,
                         week_number |-> w]
          /\ cf_features' = construct_features(LibraryA[i], m, phase, w)
    /\ cf_pc' = "done"
    /\ UNCHANGED <<banditVars, allocVars, selVars, eloVars, planVars, irtVars, otherVars, stepVars, glmmVars, drillVars, diagVars>>

NextFeatures == ConstructCall

(***************************************************************************)
(* update_elo as a function of its arguments: one response, the ratings    *)
(* the learner has before it.                                              *)
(***************************************************************************)
\* the rows a learner can have for a skill: rating and num_updates
StepRatings == [rating : {145000, 150000, 152000}, num_updates : {0, 5, 10}]

\* the result dict of update_elo and the ratings it leaves in user_ratings
UpdateEloResult(user_ratings, question, is_correct) ==
    LET R_u_eff == EffectiveRating(user_ratings, question)
        P == ExpectedScore(R_u_eff, question.difficulty_elo_base)
    IN  [user_effective_rating |-> R_u_eff,
         expected_prob |-> P,
         delta |-> (IF is_correct THEN ProbScale ELSE 0) - P,
         ratings |-> update_elo(user_ratings, question, is_correct)]

NoEloCall == [is_correct |-> FALSE]

InitEloStep ==
    /\ ue_pc = "idle"
    /\ ue_args = NoEloCall
    /\ ue_result = NoEloCall

UpdateEloCall ==
    /\ ue_pc = "idle"
    /\ \E user_ratings \in [EloSkills -> StepRatings], qid \in DOMAIN QuestionBank,
          is_correct \in BOOLEAN :
          /\ ue_args' = [user_ratings |-> user_ratings, question |-> QuestionBank[qid],
                         is_correct |-> is_correct]
          /\ ue_result' = UpdateEloResult(user_ratings, QuestionBank[qid], is_correct)
    /\ ue_pc' = "done"
    /\ UNCHANGED <<banditVars, allocVars, selVars, eloVars, planVars, irtVars, otherVars,
                   featVars, glmmVars, drillVars, diagVars>>

NextEloStep == UpdateEloCall

(***************************************************************************)
(* glmm_online_update: the learner's mastery vector under micro-updates.   *)
(* gamma and mastery are in thousandths, as the float32 row of the model   *)
(* has a finite resolution: a product lr * grad below half a unit is 0.    *)
(***************************************************************************)
GammaScale == 1000

\* 1000 * tanh(0), tanh(0.25), ..., tanh(4.25)
TanhTable ==
    <<0, 245, 462, 635, 762, 848, 905, 941, 964, 978, 987, 992, 995, 997, 998, 999, 999, 1000>>

TanhStep == 250

\* torch.tanh
Tanh(x) ==
    LET a == Abs(x)
        i == a \div TanhStep
        v == IF i + 1 >= Len(TanhTable)
             THEN TanhTable[Len(TanhTable)]
             ELSE TanhTable[i + 1]
                  + Round((TanhTable[i + 2] - TanhTable[i + 1]) * (a % TanhStep), TanhStep)
    IN  IF x >= 0 THEN v ELSE -v

\* the bound of torch.clamp(current_mastery_tensor, -0.999, 0.999)
MasteryClamp == 999

RECURSIVE TanhSearch(_, _, _)
\* from x upward in the given steps: the last point whose successor is
\* still below c under Tanh
TanhSearch(c, x, step) ==
    IF Tanh(x + step) < c THEN TanhSearch(c, x + step, step) ELSE x

\* torch.arctanh(torch.clamp(m, -0.999, 0.999)): the least gamma whose tanh
\* is the clamped |m|, with the sign of m
Atanh(m) ==
    LET c == Min2(Abs(m), MasteryClamp)
        g == IF c = 0 THEN 0
             ELSE TanhSearch(c, TanhSearch(c, TanhSearch(c, 0, TanhStep), 16), 1) + 1
    IN  IF m >= 0 THEN g ELSE -g

\* the questions of the responses: Q1 loads LR-01, Q9 is not in the bank
GlmmQuestions == {"Q1", "Q9"}

\* get_skill_vector_for_question, in halves: 1.0 for each skill of the
\* question, L1-normalised; all zeros for a question without skills
SkillVector(q) ==
    LET n == IF q \in DOMAIN QuestionBank THEN Len(QuestionBank[q].skills) ELSE 0
    IN  [s \in EloSkills |->
            IF q \in DOMAIN QuestionBank /\ WeightOf(QuestionBank[q], s) > 0
            THEN 2 \div n ELSE 0]

\* th - bi + (gamma_act * S).sum(), in hundredths, with theta_u = 0.0
GlmmLogit(row, q) ==
    Round(Tanh(row["LR-01"]) * SkillVector(q)["LR-01"]
              + Tanh(row["LR-02"]) * SkillVector(q)["LR-02"], 20) - GetItemDifficulty(q)

\* d loss / d row_param[s], in thousandths, without the regulariser
GradientNll(row, q, y, s) ==
    Round((Sigmoid(GlmmLogit(row, q)) - ProbScale * y) * SkillVector(q)[s]
              * (GammaScale - Round(Tanh(row[s]) * Tanh(row[s]), GammaScale)),
          2 * ProbScale)

\* a gradient that leaves the regulariser out
Gradient_NoReg(row, q, y, s) == GradientNll(row, q, y, s)

\* d loss / d row_param[s]: nll plus reg = 0.5 * lam_row * sum(row_param ** 2),
\* lam_row = 1.0
Gradient(row, q, y, s) == GradientNll(row, q, y, s) + row[s]

\* opt.step() of SGD with lr = 0.1
SgdStep(row, q, y) == [s \in EloSkills |-> row[s] - Round(Gradient(row, q, y, s), 10)]

\* micro_update_one: steps = 2
micro_update_one(row, q, y) == SgdStep(SgdStep(row, q, y), q, y)

\* model.get_user_mastery(0)
GetUserMastery(row) == [s \in EloSkills |-> Tanh(row[s])]

\* cap on the responses one learner's vector goes through
MaxGlmmResponses == 5

\* stored vectors: none (zeros), and vectors that earlier updates left
StoredMastery ==
    {[s \in EloSkills |-> 0],
     [s \in EloSkills |-> IF s = "LR-01" THEN 300 ELSE 10],
     [s \in EloSkills |-> IF s = "LR-01" THEN -300 ELSE -10]}

\* no call of glmm_online_update, nothing stored
IdleGlmm ==
    /\ gl_pc = "idle"
    /\ gl_mastery = [s \in EloSkills |-> 0]
    /\ gl_gamma = [s \in EloSkills |-> 0]
    /\ gl_prev = [s \in EloSkills |-> 0]
    /\ gl_last = "none"
    /\ gl_count = 0

InitGlmm ==
    /\ gl_pc = "idle"
    /\ gl_mastery \in StoredMastery
    /\ gl_gamma = [s \in EloSkills |-> 0]
    /\ gl_prev = [s \in EloSkills |-> 0]
    /\ gl_last = "none"
    /\ gl_count = 0

\* glmm_online_update up to the loop: the stored vector goes to gamma space
GlmmStart ==
    /\ gl_pc = "idle"
    /\ gl_count < MaxGlmmResponses
    /\ gl_gamma' = [s \in EloSkills |-> Atanh(gl_mastery[s])]
    /\ gl_prev' = gl_gamma'
    /\ gl_last' = "none"
    /\ gl_pc' = "loop"
    /\ UNCHANGED <<gl_mastery, gl_count, glmmFrame>>

\* one response of the loop
GlmmResponse(q, y) ==
    /\ gl_pc = "loop"
    /\ gl_count < MaxGlmmResponses
    /\ gl_prev' = gl_gamma
    /\ gl_gamma' = micro_update_one(gl_gamma, q, y)
    /\ gl_last' = q
    /\ gl_count' = gl_count + 1
    /\ UNCHANGED <<gl_pc, gl_mastery, glmmFrame>>

\* the end of the loop: persist_mastery_vector(user_id, updated_mastery)
GlmmPersist ==
    /\ gl_pc = "loop"
    /\ gl_last # "none"
    /\ gl_mastery' = GetUserMastery(gl_gamma)
    /\ gl_pc' = "idle"
    /\ UNCHANGED <<gl_gamma, gl_prev, gl_last, gl_count, glmmFrame>>

NextGlmm ==
    \/ GlmmStart
    \/ \E q \in GlmmQuestions, y \in {0, 1} : GlmmResponse(q, y)
    \/ GlmmPersist

(***************************************************************************)
(* create_drill_session / _fetch_questions.                                *)
(***************************************************************************)
\* the questions table (every row of domain 'lsat'): difficulty_level and
\* question_type by id
DrillBank ==
    [D1 |-> [difficulty_level |-> "easy", question_type |-> "assumption"],
     D2 |-> [difficulty_level |-> "easy", question_type |-> "weaken"],
     D3 |-> [difficulty_level |-> "medium", question_type |-> "assumption"],
     D4 |-> [difficulty_level |-> "challenging", question_type |-> "strengthen"]]

DifficultyLevels == {"easy", "medium", "challenging"}

QuestionTypes == {"assumption", "weaken", "strengthen"}

\* largest question_count of a payload
MaxQuestionCount == 5

\* the subsets of S with n elements, or all of S when it has fewer:
\* "ORDER BY random() LIMIT n"
RandomLimit(S, n) == {T \in SUBSET S : Cardinality(T) = Min2(n, Cardinality(S))}

\* the ids the primary query of _fetch_questions can return from
PrimaryMatches(difficulties, skills, exclude_question_ids) ==
    {q \in DOMAIN DrillBank :
        /\ difficulties # {} => DrillBank[q].difficulty_level \in difficulties
        /\ skills # {} => DrillBank[q].question_type \in skills
        /\ q \notin exclude_question_ids}

\* the ids the fallback query can return from: domain only, without the rows
\* already selected and the learner's history
FallbackMatches(rows, exclude_question_ids) ==
    DOMAIN DrillBank \ (rows \cup exclude_question_ids)

NoDrill == [question_count |-> 0]

IdleDrill ==
    /\ dr_pc = "idle"
    /\ dr_args = NoDrill
    /\ dr_result = NoDrill

\* create_drill_session(payload): the history read by
\* get_user_answered_questions, then _fetch_questions; the function returns
\* the rows it got
CreateDrillSession ==
    /\ dr_pc = "idle"
    /\ \E question_count \in 1..MaxQuestionCount, difficulties \in SUBSET DifficultyLevels,
          skills \in SUBSET QuestionTypes, exclude_question_ids \in SUBSET {"D1", "D3"} :
          \E rows \in RandomLimit(PrimaryMatches(difficulties, skills, exclude_question_ids),
                                  question_count) :
             \E fallback_rows \in
                   IF Cardinality(rows) < question_count
                   THEN RandomLimit(FallbackMatches(rows, exclude_question_ids),
                                    question_count - Cardinality(rows))
                   ELSE {{}} :
                /\ dr_args' = [question_count |-> question_count,
                               difficulties |-> difficulties, skills |-> skills,
                               exclude_question_ids |-> exclude_question_ids]
                /\ dr_result' = [question_count |-> question_count, status |-> "returned",
                                 rows |-> rows, fallback_rows |-> fallback_rows]
    /\ dr_pc' = "done"
    /\ UNCHANGED drillFrame

NextDrill == CreateDrillSession

(***************************************************************************)
(* The adaptive diagnostic (skill_builder/adaptive_diagnostic_logic.py).   *)
(* process_answer reads the session row, calls elo_online_update, and      *)
(* writes the row back; every database call is a step of its own, and      *)
(* calls for one session can overlap.  The Elo arithmetic is that of the   *)
(* Elo section; here the calls of elo_online_update are counted.           *)
(***************************************************************************)
\* len(DIAGNOSTIC_SEQUENCE) in the runs
DiagnosticLength == 2

\* process_answer calls started for the session in a run
MaxAnswerCalls == 4

\* the requests that can be in flight for the session
Callers == {1, 2}

\* the questions of the bank; each fits every slot of the sequence
DiagnosticQuestions == {"Q1", "Q2"}

\* select_question_for_slot(question_type, target_elo, exclude_ids): the ids
\* it can return; the empty set when it returns None
SelectQuestionForSlot(exclude_ids) == DiagnosticQuestions \ exclude_ids

\* the next question of lines 453-461: the first query, or the fallback
\* "without exclusions" when the first returns None
NextQuestions(selected_question_ids) ==
    IF SelectQuestionForSlot(Range(selected_question_ids)) # {}
    THEN SelectQuestionForSlot(Range(selected_question_ids))
    ELSE SelectQuestionForSlot({})

NoAnswers == [pos \in {} |-> FALSE]

NoCall == [current_position |-> -1]

\* create_adaptive_diagnostic_session has inserted the row
InitDiag ==
    /\ \E q \in SelectQuestionForSlot({}) :
          ads_session = [status |-> "in_progress", current_position |-> 0,
                         selected_question_ids |-> <<q>>, user_answers |-> NoAnswers]
    /\ ads_elo_updates = 0
    /\ pa_pc = [c \in Callers |-> "idle"]
    /\ pa_local = [c \in Callers |-> NoCall]
    /\ pa_result = [c \in Callers |-> NoCall]

IdleDiag ==
    /\ ads_session = [status |-> "in_progress", current_position |-> 0,
                      selected_question_ids |-> <<"Q1">>, user_answers |-> NoAnswers]
    /\ ads_elo_updates = 0
    /\ pa_pc = [c \in Callers |-> "idle"]
    /\ pa_local = [c \in Callers |-> NoCall]
    /\ pa_result = [c \in Callers |-> NoCall]

\* calls started so far: those that ran elo_online_update and those about to
CallsStarted == ads_elo_updates + Cardinality({c \in Callers : pa_pc[c] = "fetched"})

\* process_answer, lines 367-393: get_diagnostic_session, the checks, the
\* score of the answer
PaFetch(c) ==
    /\ pa_pc[c] = "idle"
    /\ CallsStarted < MaxAnswerCalls
    /\ IF ads_session.status # "in_progress"
       THEN /\ pa_result' = [pa_result EXCEPT ![c] =
                   [current_position |-> ads_session.current_position,
                    error |-> "Session is not in progress"]]
            /\ UNCHANGED <<pa_pc, pa_local>>
       ELSE IF ads_session.current_position >= DiagnosticLength
       THEN /\ pa_result' = [pa_result EXCEPT ![c] =
                   [current_position |-> ads_session.current_position,
                    error |-> "Diagnostic already complete"]]
            /\ UNCHANGED <<pa_pc, pa_local>>
       ELSE /\ \E is_correct \in BOOLEAN :
                   pa_local' = [pa_local EXCEPT ![c] =
                      [current_position |-> ads_session.current_position,
                       selected_question_ids |-> ads_session.selected_question_ids,
                       user_answers |-> ads_session.user_answers,
                       is_correct |-> is_correct]]
            /\ pa_pc' = [pa_pc EXCEPT ![c] = "fetched"]
            /\ UNCHANGED pa_result
    /\ UNCHANGED <<ads_session, ads_elo_updates, diagFrame>>

\* lines 395-403: elo_online_update(user_id, [the answered question])
PaEloUpdate(c) ==
    /\ pa_pc[c] = "fetched"
    /\ ads_elo_updates' = ads_elo_updates + 1
    /\ pa_pc' = [pa_pc EXCEPT ![c] = "updated"]
    /\ UNCHANGED <<ads_session, pa_local, pa_result, diagFrame>>

\* user_answers[str(current_position)] = {...}
RecordAnswer(user_answers, current_position, question_id, is_correct) ==
    [pos \in DOMAIN user_answers \cup {current_position} |->
        IF pos = current_position
        THEN [question_id |-> question_id, is_correct |-> is_correct]
        ELSE user_answers[pos]]

\* lines 425-508: the answer is recorded in the copy the call read, the next
\* question is selected, and the UPDATE writes the copy over the row
PaPersist(c) ==
    /\ pa_pc[c] = "updated"
    /\ LET current_position == pa_local[c].current_position
           selected_question_ids == pa_local[c].selected_question_ids
           user_answers == RecordAnswer(pa_local[c].user_answers, current_position,
                                        selected_question_ids[current_position + 1],
                                        pa_local[c].is_correct)
           next_position == current_position + 1
           is_complete == next_position >= DiagnosticLength
       IN  IF is_complete
           THEN /\ ads_session' = [status |-> "answering_complete",
                                   current_position |-> next_position,
                                   selected_question_ids |-> selected_question_ids,
                                   user_answers |-> user_answers]
                /\ pa_result' = [pa_result EXCEPT ![c] =
                       [current_position |-> next_position, is_complete |-> TRUE]]
           ELSE \E next_question \in NextQuestions(selected_question_ids) :
                /\ ads_session' = [status |-> ads_session.status,
                                   current_position |-> next_position,
                                   selected_question_ids |->
                                       Append(selected_question_ids, next_question),
                                   user_answers |-> user_answers]
                /\ pa_result' = [pa_result EXCEPT ![c] =
                       [current_position |-> next_position, is_complete |-> FALSE]]
    /\ pa_pc' = [pa_pc EXCEPT ![c] = "idle"]
    /\ pa_local' = [pa_local EXCEPT ![c] = NoCall]
    /\ UNCHANGED <<ads_elo_updates, diagFrame>>

NextDiag ==
    \/ \E c \in Callers : PaFetch(c)
    \/ \E c \in Callers : PaEloUpdate(c)
    \/ \E c \in Callers : PaPersist(c)

(***************************************************************************)
(* Specifications: one per component, the other components at rest.        *)
(***************************************************************************)
InitSpecBandit == InitBandit /\ IdleAlloc /\ IdleSelect /\ InitElo /\ InitPlan /\ InitIrt /\ InitOther /\ InitFeatures /\ InitEloStep /\ IdleGlmm /\ IdleDrill /\ IdleDiag

SpecBandit == InitSpecBandit /\ [][NextBandit]_vars

InitSpecAlloc == InitAlloc /\ InitBandit /\ IdleSelect /\ InitElo /\ InitPlan /\ InitIrt /\ InitOther /\ InitFeatures /\ InitEloStep /\ IdleGlmm /\ IdleDrill /\ IdleDiag

SpecAlloc == InitSpecAlloc /\ [][NextAlloc]_vars

InitSpecSelect == InitSelect /\ InitBandit /\ IdleAlloc /\ InitElo /\ InitPlan /\ InitIrt /\ InitOther /\ InitFeatures /\ InitEloStep /\ IdleGlmm /\ IdleDrill /\ IdleDiag

SpecSelect == InitSpecSelect /\ [][NextSelect]_vars

InitSpecElo == InitElo /\ InitBandit /\ IdleAlloc /\ IdleSelect /\ InitPlan /\ InitIrt /\ InitOther /\ InitFeatures /\ InitEloStep /\ IdleGlmm /\ IdleDrill /\ IdleDiag

SpecElo == InitSpecElo /\ [][NextElo]_vars

InitSpecPlan == InitPlan /\ InitBandit /\ IdleAlloc /\ IdleSelect /\ InitElo /\ InitIrt /\ InitOther /\ InitFeatures /\ InitEloStep /\ IdleGlmm /\ IdleDrill /\ IdleDiag

SpecPlan == InitSpecPlan /\ [][NextPlan]_vars

InitSpecIrt == InitIrt /\ InitBandit /\ IdleAlloc /\ IdleSelect /\ InitElo /\ InitPlan /\ InitOther /\ InitFeatures /\ InitEloStep /\ IdleGlmm /\ IdleDrill /\ IdleDiag

SpecIrt == InitSpecIrt /\ [][NextIrt]_vars

InitSpecShared == InitPlan /\ InitBandit /\ IdleAlloc /\ IdleSelect /\ InitElo /\ InitIrt /\ InitOther /\ InitFeatures /\ InitEloStep /\ IdleGlmm /\ IdleDrill /\ IdleDiag

SpecShared == InitSpecShared /\ [][NextShared]_vars

InitSpecFeatures == InitFeatures /\ InitBandit /\ IdleAlloc /\ IdleSelect /\ InitElo /\ InitPlan /\ InitIrt /\ InitOther /\ InitEloStep /\ IdleGlmm /\ IdleDrill /\ IdleDiag

SpecFeatures == InitSpecFeatures /\ [][NextFeatures]_vars

InitSpecEloStep == InitEloStep /\ InitBandit /\ IdleAlloc /\ IdleSelect /\ InitElo /\ InitPlan /\ InitIrt /\ InitOther /\ InitFeatures /\ IdleGlmm /\ IdleDrill /\ IdleDiag

SpecEloStep == InitSpecEloStep /\ [][NextEloStep]_vars

InitSpecGlmm == InitGlmm /\ InitBandit /\ IdleAlloc /\ IdleSelect /\ InitElo /\ InitPlan /\ InitIrt /\ InitOther /\ InitFeatures /\ InitEloStep /\ IdleDrill /\ IdleDiag

SpecGlmm == InitSpecGlmm /\ [][NextGlmm]_vars

InitSpecDrill == IdleDrill /\ IdleGlmm /\ InitBandit /\ IdleAlloc /\ IdleSelect /\ InitElo /\ InitPlan /\ InitIrt /\ InitOther /\ InitFeatures /\ InitEloStep /\ IdleDiag

SpecDrill == InitSpecDrill /\ [][NextDrill]_vars

InitSpecDiag == InitDiag /\ IdleDrill /\ IdleGlmm /\ InitBandit /\ IdleAlloc /\ IdleSelect /\ InitElo /\ InitPlan /\ InitIrt /\ InitOther /\ InitFeatures /\ InitEloStep

SpecDiag == InitSpecDiag /\ [][NextDiag]_vars

\* the interpreter keeps running a call that can take a step
SpecAllocFair == SpecAlloc /\ WF_vars(NextAlloc)

(***************************************************************************)
(* Working through a plan: one learner generates a plan, completes tasks   *)
(* and calls adapt_week for the weeks of the plan in any order.            *)
(***************************************************************************)
\* largest completed_week a caller passes while working through the plan
MaxCourseWeek == 3

CourseWeeks == 1..MaxCourseWeek

\* the course sends one generate_plan request, request 1
NextCourse ==
    \/ Tick
    \/ CompleteDiagnostic
    \/ MarkTaskCompleted
    \/ GpCheck(1)
    \/ GpInit(1)
    \/ GpInsertPlan(1)
    \/ GpPlanWeeks(1)
    \/ \E w \in CourseWeeks : AdaptNotComplete(w)
    \/ \E w \in CourseWeeks : AdaptWeek(w)

InitSpecCourse == InitPlan /\ InitBandit /\ IdleAlloc /\ IdleSelect /\ InitElo /\ InitIrt /\ InitOther /\ InitFeatures /\ InitEloStep /\ IdleGlmm /\ IdleDrill /\ IdleDiag

SpecCourse == InitSpecCourse /\ [][NextCourse]_vars

\* the request that has inserted the plan goes on to plan its weeks, and the
\* learner keeps completing the tasks that stand on the plan
SpecCourseFair ==
    /\ SpecCourse
    /\ WF_vars(GpPlanWeeks(1))
    /\ WF_vars(MarkTaskCompleted)

(***************************************************************************)
(* C2.  When adapt_week(1) succeeds after every week-1 task was completed  *)
(* and the learner's mastery on the target skills of the week-1 modules    *)
(* rose since the plan was generated, the reward of each of those modules  *)
(* is positive and some component of the stored mean is larger than before *)
(* the call.                                                               *)
(***************************************************************************)
C2_AdaptWeekOneLearns ==
    (aw_result.status = "success" /\ aw_result.week_completed = 1 /\ aw_obs.mastery_rose) =>
        /\ \A k \in DOMAIN aw_result.rewards : aw_result.rewards[k] > 0
        /\ \E i \in Idx : RatLess(aw_obs.mu_before, aw_obs.mu_after, i)

(***************************************************************************)
(* C3.  When two calls of elo_online_update for the same learner have both *)
(* returned, the stored ratings and update counts are those of the two     *)
(* calls run one after the other, in one of the two orders.                *)
(***************************************************************************)
C3_SerializedUpdates ==
    (\A p \in EloCalls : eo_pc[p] = "done") =>
        \/ elo_rows = EloRun(EloRun(NoRatings, eo_evidence[1], 1), eo_evidence[2], 1)
        \/ elo_rows = EloRun(EloRun(NoRatings, eo_evidence[2], 1), eo_evidence[1], 1)

(***************************************************************************)
(* C4.  Whenever allocate_phases returns (N1, N2, N3), N1 + N2 + N3 equals  *)
(* total_weeks, for every total_weeks and every mastery vector.            *)
(***************************************************************************)
C4_PhasesSumToTotal == ap_pc = "done" => PhaseSum(ap_N) = ap_total_weeks

\* allocate_phases has returned after the loop changed the Practice count
C4_Witness ==
    /\ ap_pc = "done"
    /\ PhaseSum(AllocAdjusted(ap_total_weeks, ap_mastery)) # ap_total_weeks

\* what the greedy loop alone selected in the call that has returned
GreedySelected ==
    GreedyFrom(ModulesOf(Library(sel_args.module_library), sel_ranked), 1,
               [selected |-> <<>>, total_time |-> 0, covered_skills |-> {}],
               sel_args.time_budget).selected

(***************************************************************************)
(* C5.  For every call of select_modules_for_week the estimated_minutes of *)
(* the modules it returns sum to at most the time budget.                  *)
(***************************************************************************)
C5_WithinTimeBudget ==
    sel_pc = "done" =>
        TotalMinutes(ModulesOf(Library(sel_args.module_library), sel_result))
            <= sel_args.time_budget

(***************************************************************************)
(* C6.  For every call of select_modules_for_week, also in every 3rd week, *)
(* in which a diagnostic module is inserted, the returned list holds at    *)
(* most 5 modules.                                                         *)
(***************************************************************************)
C6_AtMostFiveModules == sel_pc = "done" => Len(sel_result) <= MaxModulesPerWeek

(***************************************************************************)
(* C7.  Whenever at least 2 modules are eligible for the week (phase       *)
(* matches, not completed, prerequisites satisfied), the call returns at   *)
(* least 2 modules, whatever their durations and skill overlap.            *)
(***************************************************************************)
C7_AtLeastTwoModules ==
    (sel_pc = "done" /\ Len(sel_ranked) >= MinModulesPerWeek) =>
        Len(sel_result) >= MinModulesPerWeek

\* a call with two or more candidates in which the greedy loop accepted fewer
\* than two, so that the fallback decided what was returned
C7_Witness ==
    /\ sel_pc = "done"
    /\ Len(sel_ranked) >= MinModulesPerWeek
    /\ Len(GreedySelected) < MinModulesPerWeek
    /\ Len(sel_result) >= MinModulesPerWeek


(***************************************************************************)
(* C8.  No step deletes or replaces a task that has been started or        *)
(* completed: such a task is still there after the step, and has not gone  *)
(* back to 'pending'.                                                      *)
(***************************************************************************)
C8_PastWeeksImmutable ==
    [][\A t \in tasks :
          t.status # "pending" =>
             \E u \in tasks' : /\ u.week_number = t.week_number
                               /\ u.module_id = t.module_id
                               /\ u.task_idx = t.task_idx
                               /\ u.status # "pending"]_vars

(***************************************************************************)
(* C9.  generate_plan and adapt_week do not answer with an ordinary        *)
(* success when a week they planned had no eligible module and was left    *)
(* without tasks (their results carry no field that could report the       *)
(* week).                                                                  *)
(***************************************************************************)
C9_EmptyWeekReported ==
    /\ \A r \in Requests : gp_result[r].status = 201 => gp_obs[r].empty_weeks = {}
    /\ aw_result.status = "success" => aw_obs.empty_weeks = {}

(***************************************************************************)
(* C10.  A generate_plan request that does not create the plan is answered *)
(* with a validation error (400) and has not changed the stored bandit     *)
(* posterior, also when two requests of the learner overlap.               *)
(***************************************************************************)
C10_RejectedWithoutEffect ==
    \A r \in Requests :
        (gp_pc[r] = "done" /\ gp_result[r].status # 201) =>
            /\ gp_result[r].status = 400
            /\ ~gp_obs[r].posterior_changed

(***************************************************************************)
(* C11.  When generate_plan reads the mastery of a learner who has no      *)
(* stored mastery vector, the vector it plans with is all zeros.           *)
(***************************************************************************)
C11_DefaultMasteryIsZero ==
    [][\A r \in Requests :
          (gp_pc[r] = "generate" /\ gp_pc'[r] = "insert" /\ abilities = NoVector) =>
              gp_local'[r].mastery_vector = [s \in Skills |-> 0]]_vars

(***************************************************************************)
(* C12.  update_ability skips an evidence record whose question is         *)
(* unknown: the theta it stores is the one computed from the other records *)
(* of the batch alone.                                                     *)
(***************************************************************************)
C12_UnknownItemSkipped ==
    ia_calls > 0 =>
        theta = ClampTheta(IrtNewTheta(ia_before, KnownItems(ia_evidence), ia_n))

(***************************************************************************)
(* C14.  After any sequence of update_ability calls the stored theta lies  *)
(* in [-3.5, 3.5].                                                         *)
(***************************************************************************)
C14_ThetaInBounds == theta # NoTheta => (THETA_MIN <= theta /\ theta <= THETA_MAX)

\* a call whose Newton iteration left the interval, so that the clamp decided
\* what was stored
C14_Witness ==
    /\ ia_calls > 0
    /\ ia_raw > THETA_MAX
    /\ theta = THETA_MAX

(***************************************************************************)
(* C13.  The completion rates adapt_week computes for a learner's modules  *)
(* are those of the learner's own tasks: rows of other learners' plans do  *)
(* not change them.                                                        *)
(***************************************************************************)
C13_OwnTasksOnly ==
    aw_obs.status = "success" =>
        \A k \in DOMAIN aw_obs.counts :
            /\ aw_obs.counts[k].completed * aw_obs.own_counts[k].total
                  = aw_obs.own_counts[k].completed * aw_obs.counts[k].total
            /\ (aw_obs.counts[k].total = 0) = (aw_obs.own_counts[k].total = 0)

(***************************************************************************)
(* C15.  construct_features returns 100 entries with every group at its    *)
(* documented place, for every module and every mastery vector the learner *)
(* can have stored: mastery at 1..35, the difficulty one-hot at 41..43,    *)
(* the phase match at 44, week / 10 at 45, zeros at 51..100.               *)
(***************************************************************************)
C15_FixedLayout ==
    cf_pc = "done" =>
        /\ Len(cf_features) = FeatureDim
        /\ SubSeq(cf_features, 1, PlannerSkills) = cf_args.mastery_vector
        /\ SubSeq(cf_features, 41, 43) = DifficultyOneHot(cf_args.module)
        /\ cf_features[44] = PhaseMatch(cf_args.module, cf_args.phase)
        /\ cf_features[45] = cf_args.week_number
        /\ \A i \in 51..FeatureDim : cf_features[i] = 0

(***************************************************************************)
(* C16.  For one response update_elo moves the rating of every skill the   *)
(* question loads by K * weight * (actual - P), with K from the skill's    *)
(* num_updates before the response and one P from the ratings before the   *)
(* response, and adds 1 to that skill's num_updates; the rating rises on a *)
(* correct answer and falls on an incorrect one; other skills are left.    *)
(***************************************************************************)
C16_EloStep ==
    ue_pc = "done" =>
        LET q == ue_args.question
            before == ue_args.user_ratings
            after == ue_result.ratings
            P == ExpectedScore(EffectiveRating(before, q), q.difficulty_elo_base)
            delta == (IF ue_args.is_correct THEN ProbScale ELSE 0) - P
        IN  /\ \A i \in DOMAIN q.skills :
                  LET s == q.skills[i].skill_id
                      w == q.skills[i].weight
                  IN  /\ after[s].rating - before[s].rating
                            = Round(AdaptiveK(before[s].num_updates) * w * delta,
                                    WeightScale * ProbScale)
                      /\ after[s].num_updates = before[s].num_updates + 1
                      /\ ue_args.is_correct => after[s].rating > before[s].rating
                      /\ ~ue_args.is_correct => after[s].rating < before[s].rating
            /\ \A s \in EloSkills :
                  (\A i \in DOMAIN q.skills : q.skills[i].skill_id # s) => after[s] = before[s]

\* an incorrect answer to a question that loads two skills with different
\* update counts: both ratings fell, by different amounts
C16_Witness ==
    /\ ue_pc = "done"
    /\ Len(ue_args.question.skills) = 2
    /\ ~ue_args.is_correct
    /\ ue_args.user_ratings["LR-01"].num_updates # ue_args.user_ratings["LR-02"].num_updates
    /\ \A s \in EloSkills : ue_result.ratings[s].rating < ue_args.user_ratings[s].rating

\* the arguments of the worked example: Flaw (LR-01) 1500 with 10 updates,
\* Assumption (LR-02) 1450 with 5 updates, weights 0.6 / 0.4, D_q = 1520, correct
WorkedExample ==
    /\ ue_pc = "done"
    /\ ue_args.user_ratings = [s \in EloSkills |->
                                  IF s = "LR-01" THEN [rating |-> 150000, num_updates |-> 10]
                                  ELSE [rating |-> 145000, num_updates |-> 5]]
    /\ ue_args.question = QuestionBank["Q2"]
    /\ ue_args.is_correct

(***************************************************************************)
(* C17.  On the worked example update_elo gives R_eff = 1480.0, P = 0.443, *)
(* delta = 0.557, Flaw' = 1504.0 and Assumption' = 1454.5, each within     *)
(* half a rating point (half a thousandth for P and delta).                *)
(***************************************************************************)
C17_WorkedExampleAsStated ==
    WorkedExample =>
        /\ ue_result.user_effective_rating = 148000
        /\ Abs(ue_result.expected_prob - 4430) <= 5
        /\ Abs(ue_result.delta - 5570) <= 5
        /\ Abs(ue_result.ratings["LR-01"].rating - 150400) <= 50
        /\ Abs(ue_result.ratings["LR-02"].rating - 145450) <= 50

(***************************************************************************)
(* C17, amended.  On the worked example update_elo gives R_eff = 1480.0,   *)
(* P = 0.443, delta = 0.557, Flaw' = 1504.0 and Assumption' = 1453.6       *)
(* (1450 + 40 / sqrt(6) * 0.4 * 0.557), each within a twentieth of a       *)
(* rating point.                                                           *)
(***************************************************************************)
C17_WorkedExample ==
    WorkedExample =>
        /\ ue_result.user_effective_rating = 148000
        /\ Abs(ue_result.expected_prob - 4430) <= 5
        /\ Abs(ue_result.delta - 5570) <= 5
        /\ Abs(ue_result.ratings["LR-01"].rating - 150400) <= 5
        /\ Abs(ue_result.ratings["LR-02"].rating - 145360) <= 5
        /\ ue_result.ratings["LR-01"].num_updates = 11
        /\ ue_result.ratings["LR-02"].num_updates = 6

C17_Witness == WorkedExample /\ ue_result.ratings["LR-02"].rating > 145000

LowMasteryCall ==
    /\ ap_pc = "done"
    /\ ap_total_weeks \in {8, 10, 12}
    /\ AvgBelowQuarter(ap_mastery)
    /\ ~VarianceHigh(ap_mastery)

(***************************************************************************)
(* C19.  For total_weeks in {8, 10, 12} and a mastery vector of mean below *)
(* 0.25 and variance at most 0.05, allocate_phases returns the base table  *)
(* entry with one week moved from Mastery to Foundation: Foundation + 1,   *)
(* Mastery - 1, Practice unchanged.                                        *)
(***************************************************************************)
C19_LowMasteryShiftAsStated ==
    LowMasteryCall =>
        /\ ap_N.N1 = BaseAllocation(ap_total_weeks).N1 + 1
        /\ ap_N.N2 = BaseAllocation(ap_total_weeks).N2
        /\ ap_N.N3 = BaseAllocation(ap_total_weeks).N3 - 1

(***************************************************************************)
(* C19, amended.  For total_weeks in {10, 12} and such a mastery vector    *)
(* allocate_phases moves one week from Mastery to Foundation (Practice     *)
(* unchanged); for total_weeks = 8 Mastery is already at its floor of 2,   *)
(* and the week Foundation gains is taken from Practice: (3, 3, 2).        *)
(***************************************************************************)
C19_LowMasteryShift ==
    LowMasteryCall =>
        /\ ap_N.N1 = BaseAllocation(ap_total_weeks).N1 + 1
        /\ ap_total_weeks \in {10, 12} =>
              /\ ap_N.N2 = BaseAllocation(ap_total_weeks).N2
              /\ ap_N.N3 = BaseAllocation(ap_total_weeks).N3 - 1
        /\ ap_total_weeks = 8 =>
              /\ ap_N.N2 = BaseAllocation(ap_total_weeks).N2 - 1
              /\ ap_N.N3 = BaseAllocation(ap_total_weeks).N3
              /\ ap_N = [N1 |-> 3, N2 |-> 3, N3 |-> 2]

\* the 8-week call has returned, having passed through the loop
C19_Witness == LowMasteryCall /\ ap_total_weeks = 8 /\ ap_N.N2 = 3

\* a micro-update has just run and skill s is not loaded by its question
Untouched(s) == gl_last # "none" /\ SkillVector(gl_last)[s] = 0

GammaFloor == CHOOSE g \in 1..10 : Round(g, 10) # 0 /\ \A h \in 1..(g - 1) : Round(h, 10) = 0

C21_EmptyEvidenceNoOp ==
    (ia_calls > 0 /\ ia_evidence = <<>>) =>
        theta = (IF ia_before = NoTheta THEN 0 ELSE ia_before)

\* an empty call on a learner whose stored estimate is not 0, for a response
\* count that gives the prior its smallest variance
C21_Witness ==
    /\ ia_calls > 1
    /\ ia_evidence = <<>>
    /\ ia_n = N_CAP
    /\ ia_before \notin {NoTheta, 0}
    /\ theta = ia_before

\* the number of questions in the list create_drill_session returned
ReturnedQuestions == Cardinality(dr_result.rows) + Cardinality(dr_result.fallback_rows)

(***************************************************************************)
(* C22.  create_drill_session never returns fewer questions than           *)
(* requested: it returns exactly question_count questions with pairwise    *)
(* distinct ids, or it raises QuestionAvailabilityError.                   *)
(***************************************************************************)
C22_NeverFewerThanRequested ==
    dr_pc = "done" =>
        \/ dr_result.status = "QuestionAvailabilityError"
        \/ /\ dr_result.status = "returned"
           /\ ReturnedQuestions = dr_args.question_count
           /\ dr_result.rows \cap dr_result.fallback_rows = {}

(***************************************************************************)
(* C23.  allocate_phases terminates for every total_weeks >= 1 and every   *)
(* mastery vector: the loop that nudges Practice reaches                   *)
(* N1 + N2 + N3 = total_weeks and the call returns.                        *)
(***************************************************************************)
C23_AllocTerminates == <>(ap_pc = "done")

\* some task of week w of the plan is not 'completed'
WeekNotFullyCompleted(w) ==
    \E t \in tasks : t.week_number = w /\ t.status # "completed"

(***************************************************************************)
(* C24.  adapt_week(w) on a week with a task that is not 'completed'       *)
(* returns an error and changes nothing: a call succeeds only for a week   *)
(* whose tasks are all completed, and a call that returns the error leaves *)
(* the bandit row, the completion log, the snapshots, the tasks and the    *)
(* plan (current_phase) as they were.                                      *)
(***************************************************************************)
C24_IncompleteWeekRejected ==
    [][/\ (aw_result'.status = "success" /\ aw_result' # aw_result) =>
              ~WeekNotFullyCompleted(aw_result'.week_completed)
       /\ \A w \in AdaptWeeks :
             (study_plan # NoPlan /\ WeekNotFullyCompleted(w) /\ aw_result' # aw_result
                  /\ aw_result'.status = "error" /\ aw_result'.week = w) =>
                 /\ bandit_model' = bandit_model
                 /\ completions' = completions
                 /\ history' = history
                 /\ tasks' = tasks
                 /\ study_plan' = study_plan]_vars

\* adapt_week(1) has been refused while one task of week 1 is completed and
\* another is still open
C24_Witness ==
    /\ aw_result.status = "error"
    /\ aw_result.week = 1
    /\ WeekNotFullyCompleted(1)
    /\ \E t \in tasks : t.week_number = 1 /\ t.status = "completed"
    /\ bandit_model # NoRow


(***************************************************************************)
(* C25: every module select_modules_for_week returns is an eligible        *)
(* candidate: the requested phase is in its phase_suitability, its         *)
(* module_id is not in completed_modules and all of its prerequisites are  *)
(* in completed_modules.                                                   *)
(***************************************************************************)
C25_ReturnedAreEligible ==
    sel_pc = "done" =>
        \A i \in DOMAIN sel_result :
            LET m == GetModuleById(Library(sel_args.module_library), sel_result[i])
            IN  /\ sel_args.phase \in m.phase_suitability
                /\ m.module_id \notin sel_args.completed_modules
                /\ m.prerequisites \subseteq sel_args.completed_modules


(***************************************************************************)
(* C26: after adapt_week(w) succeeds, the plan's current_phase is the      *)
(* phase that phase_allocation assigns to week w + 1: foundation while     *)
(* w + 1 <= N1, practice while N1 < w + 1 <= N1 + N2, mastery afterwards.  *)
(***************************************************************************)
\* the step is a successful adapt_week: only it appends to module_completions
AdaptSucceeds == completions' # completions

\* the completed_week of the adapt_week that has just succeeded
AdaptedWeek == completions'[Len(completions')].week_number

C26_PhaseFollowsAllocation ==
    [][AdaptSucceeds =>
          study_plan'.current_phase
             = PhaseOfWeek(AdaptedWeek + 1, study_plan'.phase_allocation)]_vars


(***************************************************************************)
(* C27: the evidence of a completed week is folded into the bandit         *)
(* posterior at most once: a call adapt_week(w) for a week that was        *)
(* already adapted leaves the stored mu, Sigma and update count unchanged  *)
(* and appends no module-completion record.                                *)
(***************************************************************************)
\* a successful adapt_week(w) is on record
WeekAdapted(w) == \E i \in DOMAIN completions : completions[i].week_number = w

\* the step is a call adapt_week(w) that runs to its return: it stores the
\* week-end snapshot and answers with week_completed = w
AdaptCall(w) ==
    /\ Len(history') = Len(history) + 1
    /\ history'[Len(history')].trigger_event = "week_end"
    /\ aw_result'.status = "success"
    /\ aw_result'.week_completed = w

C27_EvidenceFoldedOnce ==
    [][\A w \in CourseWeeks :
          (WeekAdapted(w) /\ AdaptCall(w)) =>
              /\ bandit_model' = bandit_model
              /\ completions' = completions]_vars


(***************************************************************************)
(* C28: within one study plan no module is assigned to more than one week: *)
(* after generate_plan and after every replanning by adapt_week, each      *)
(* module_id appears in the tasks of at most one week.                     *)
(***************************************************************************)
C28_ModuleInOneWeek ==
    \A t1, t2 \in tasks : t1.module_id = t2.module_id => t1.week_number = t2.week_number


(***************************************************************************)
(* C29: a plan can always be worked through to its end: when the learner   *)
(* completes every task assigned to them, for every week w of the plan a   *)
(* call adapt_week(w) eventually succeeds; no week stays "not yet          *)
(* complete" for ever.                                                     *)
(***************************************************************************)
\* once the plan stands, every week has been adapted or becomes complete, so
\* that a call adapt_week(w) passes the test of lines 444-448
C29_NoWeekStaysIncomplete ==
    \A w \in CourseWeeks :
        (study_plan # NoPlan) ~> (WeekAdapted(w) \/ IsWeekComplete(tasks, w))


(***************************************************************************)
(* C30: in an adaptive diagnostic session every answered position produces *)
(* exactly one Elo update and one recorded answer: when no process_answer  *)
(* call is in flight, also after two calls for the same position have      *)
(* overlapped, the number of Elo updates applied for the session equals    *)
(* current_position and user_answers holds exactly the positions           *)
(* 0 .. current_position - 1.                                              *)
(***************************************************************************)
C30_OneUpdatePerPosition ==
    (\A c \in Callers : pa_pc[c] = "idle") =>
        /\ ads_elo_updates = ads_session.current_position
        /\ DOMAIN ads_session.user_answers = 0..(ads_session.current_position - 1)

=============================================================================
